---- MODULE Spec2Model ----
(***************************************************************************)
(* Model of the storex TypeScript type generator (src/ts/index.ts and the  *)
(* later snapshot src/unnamed/part_000).                                   *)
(*                                                                         *)
(* Representation of strings.  A JavaScript string is a sequence of        *)
(* tokens, every token a TLA+ string.  A line break is always the token    *)
(* NL on its own, so split('\n') and join('\n') act on tokens.  Collection *)
(* and field names are sequences of one-character tokens, so upperFirst    *)
(* acts on the first character.  The literal parts of a template string    *)
(* are one token each, and a type name is one token.                       *)
(***************************************************************************)
EXTENDS Integers, Sequences, FiniteSets, TLC

\* ------------------------------------------------------------------ bounds
MaxFields == 2
MaxCollections == 2
MaxCalls == 3
MaxFlatFields == 3

\* --------------------------------------------------------- JavaScript values
NL == "\n"
\* null as returned by the emitters; never a value a template produces
null == <<"<null>">>
\* the value of a missing property
undefined == "<undefined>"

\* !!s for a string-or-null value
truthy(s) == s # null /\ s # <<>>

\* `${v}` for a value that may be undefined
interpolate(v) == IF v = undefined THEN "undefined" ELSE v

\* map[key] on a plain object
lookup(map, key) == IF key \in DOMAIN map THEN map[key] ELSE undefined

RECURSIVE join(_, _)
\* Array.prototype.join
join(parts, sep) ==
    IF parts = <<>> THEN <<>>
    ELSE IF Len(parts) = 1 THEN parts[1]
    ELSE parts[1] \o sep \o join(Tail(parts), sep)

RECURSIVE split(_)
\* String.prototype.split('\n')
split(s) ==
    IF \A k \in 1..Len(s) : s[k] # NL THEN <<s>>
    ELSE LET p == CHOOSE k \in 1..Len(s) : s[k] = NL /\ \A j \in 1..(k-1) : s[j] # NL
         IN  <<SubSeq(s, 1, p - 1)>> \o split(SubSeq(s, p + 1, Len(s)))

\* Array.prototype.filter(line => !!line)
filterTruthy(lines) == SelectSeq(lines, truthy)

\* Array.prototype.indexOf(x) === -1
notIn(seq, x) == \A k \in 1..Len(seq) : seq[k] # x

\* Mutant: a list that keeps every name pushed
setAdd_push(set, x) == Append(set, x)

\* Set.prototype.add on an insertion-ordered set
setAdd(set, x) == IF notIn(set, x) THEN Append(set, x) ELSE set

\* ------------------------------------------------------------- ./utils
Upper == [a |-> "A", b |-> "B", f |-> "F", o |-> "O", r |-> "R", t |-> "T",
          e |-> "E", s |-> "S", g |-> "G", z |-> "Z", c |-> "C", m |-> "M",
          p |-> "P", q |-> "Q", u |-> "U", x |-> "X", h |-> "H", i |-> "I",
          d |-> "D", n |-> "N"]

upperFirst(name) ==
    IF name = <<>> THEN <<>>
    ELSE <<IF name[1] \in DOMAIN Upper THEN Upper[name[1]] ELSE name[1]>> \o Tail(name)

\* ------------------------------------------------------------- index.ts
\* Mutant: datetime mapped to a lower-case type name
DEFAULT_FIELD_TYPE_MAP_lowerDate ==
    [string |-> "string", text |-> "string", json |-> "any", datetime |-> "date",
     timestamp |-> "number", boolean |-> "boolean", float |-> "number", int |-> "number"]

DEFAULT_FIELD_TYPE_MAP ==
    [string |-> "string", text |-> "string", json |-> "any", datetime |-> "Date",
     timestamp |-> "number", boolean |-> "boolean", float |-> "number", int |-> "number"]

indent(s) ==
    LET ls == split(s)
    IN  join([k \in 1..Len(ls) |-> <<"    ">> \o ls[k]], <<NL>>)

\* Mutant: an empty list of lines gives an empty group
inIndentedBlock_always(bodyLines) ==
    <<"{", NL>> \o indent(join(bodyLines, <<NL>>)) \o <<NL, "}">>

inIndentedBlock(bodyLines) ==
    IF bodyLines = <<>> THEN null
    ELSE <<"{", NL>> \o indent(join(bodyLines, <<NL>>)) \o <<NL, "}">>

\* @worldbrain/storex predicates on a relationship definition
isChildOfRelationship(relationship) == relationship.kind = "childOf"
isConnectsRelationship(relationship) == relationship.kind = "connects"

\* A thrown value
Throw(type, message) == [ok |-> FALSE, type |-> type, message |-> message]
\* A returned value
Return(value) == [ok |-> TRUE, value |-> value]

\* storageRegistry.collections[name] for a name the registry does not hold
undefinedCollection == [undefined |-> TRUE]

\* Mutant: the lookup's result is returned unchecked
getTypescriptFieldType_unchecked(fieldDefinition, options) ==
    LET fieldTypeMap == IF options.fieldTypeMap # <<>> THEN options.fieldTypeMap[1]
                        ELSE DEFAULT_FIELD_TYPE_MAP
    IN  IF fieldDefinition.type = "auto-pk"
        THEN Return(lookup(fieldTypeMap, options.autoPkType))
        ELSE Return(lookup(fieldTypeMap, fieldDefinition.type))

getTypescriptFieldType(fieldDefinition, options) ==
    LET fieldTypeMap == IF options.fieldTypeMap # <<>> THEN options.fieldTypeMap[1]
                        ELSE DEFAULT_FIELD_TYPE_MAP
        storexFieldType == fieldDefinition.type
        typescriptFieldType == lookup(fieldTypeMap, storexFieldType)
    IN  IF storexFieldType = "auto-pk"
        THEN Return(lookup(fieldTypeMap, options.autoPkType))
        ELSE IF typescriptFieldType = undefined \/ typescriptFieldType = ""
        THEN Throw("Error",
                   <<"Could not translate type '", storexFieldType, "' of field '">>
                   \o options.collectionDefinition.name \o <<".">> \o options.fieldName
                   \o <<"' to TypeScript type. ",
                        "Please use the 'fieldTypeMap' option for custom fields">>)
        ELSE Return(typescriptFieldType)

\* Mutant: the primary-key field is not left out
generateTypescriptField_pkKept(fieldDefinition, options) ==
    LET optional == IF fieldDefinition.optional THEN <<"?">> ELSE <<>>
        type == getTypescriptFieldType(fieldDefinition, options)
    IN  IF fieldDefinition.type = "foreign-key" THEN Return(null)
        ELSE IF ~type.ok THEN type
        ELSE Return(options.fieldName \o optional \o <<" : ", interpolate(type.value)>>)

\* Mutant: the optional flag is not read
generateTypescriptField_noMark(fieldDefinition, options) ==
    LET pkIndex == options.collectionDefinition.pkIndex
        type == getTypescriptFieldType(fieldDefinition, options)
    IN  IF fieldDefinition.type = "foreign-key" THEN Return(null)
        ELSE IF pkIndex.type = "string" /\ options.fieldName = pkIndex.value THEN Return(null)
        ELSE IF ~type.ok THEN type
        ELSE Return(options.fieldName \o <<" : ", interpolate(type.value)>>)

generateTypescriptField(fieldDefinition, options) ==
    LET pkIndex == options.collectionDefinition.pkIndex
        optional == IF fieldDefinition.optional THEN <<"?">> ELSE <<>>
        type == getTypescriptFieldType(fieldDefinition, options)
    IN  IF fieldDefinition.type = "foreign-key" THEN Return(null)
        ELSE IF pkIndex.type = "string" /\ options.fieldName = pkIndex.value THEN Return(null)
        ELSE IF ~type.ok THEN type
        ELSE Return(options.fieldName \o optional \o <<" : ", interpolate(type.value)>>)

\* Mutant: the type of the segment is read from the table under every
\* strategy, as before the generic strategy was added
generateTypescriptOptionalPk_tableOnly(collectionDefinition, options) ==
    IF collectionDefinition = undefinedCollection
    THEN Throw("TypeError", <<"Cannot read property 'pkIndex' of undefined">>)
    ELSE LET pkIndex == collectionDefinition.pkIndex
             pkType == lookup(DEFAULT_FIELD_TYPE_MAP, options.autoPkType)
         IN  IF pkIndex.type # "string"
             THEN Throw("Error", <<"Unsupported pkIndex found in collection ", "[object Object]">>)
             ELSE Return(<<"( WithPk extends true ? { ">> \o pkIndex.value
                         \o <<" : ", interpolate(pkType), " } : {} )">>)

\* Mutant: an index over several fields is printed as a field name
generateTypescriptOptionalPk_anyIndex(collectionDefinition, options) ==
    IF collectionDefinition = undefinedCollection
    THEN Throw("TypeError", <<"Cannot read property 'pkIndex' of undefined">>)
    ELSE LET pkIndex == collectionDefinition.pkIndex
             pkType == IF options.autoPkType # "generic"
                       THEN lookup(DEFAULT_FIELD_TYPE_MAP, options.autoPkType)
                       ELSE "number | string"
         IN  IF pkIndex.type # "string"
             THEN Return(<<"( WithPk extends true ? { ">> \o join(pkIndex.value, <<",">>)
                         \o <<" : ", interpolate(pkType), " } : {} )">>)
             ELSE Return(<<"( WithPk extends true ? { ">> \o pkIndex.value
                         \o <<" : ", interpolate(pkType), " } : {} )">>)

\* Mutant: the index of a missing definition is read as undefined
generateTypescriptOptionalPk_guarded(collectionDefinition, options) ==
    IF collectionDefinition = undefinedCollection
    THEN Throw("Error", <<"Unsupported pkIndex found in collection ", "undefined">>)
    ELSE LET pkIndex == collectionDefinition.pkIndex
             pkType == IF options.autoPkType # "generic"
                       THEN lookup(DEFAULT_FIELD_TYPE_MAP, options.autoPkType)
                       ELSE "number | string"
         IN  IF pkIndex.type # "string"
             THEN Throw("Error", <<"Unsupported pkIndex found in collection ", "[object Object]">>)
             ELSE Return(<<"( WithPk extends true ? { ">> \o pkIndex.value
                         \o <<" : ", interpolate(pkType), " } : {} )">>)

\* Mutant: the type of the segment is read from the type map in use
generateTypescriptOptionalPk_fromFieldTypeMap(collectionDefinition, options) ==
    IF collectionDefinition = undefinedCollection
    THEN Throw("TypeError", <<"Cannot read property 'pkIndex' of undefined">>)
    ELSE LET pkIndex == collectionDefinition.pkIndex
             fieldTypeMap == IF options.fieldTypeMap # <<>> THEN options.fieldTypeMap[1]
                             ELSE DEFAULT_FIELD_TYPE_MAP
             pkType == IF options.autoPkType # "generic"
                       THEN lookup(fieldTypeMap, options.autoPkType)
                       ELSE "number | string"
         IN  IF pkIndex.type # "string"
             THEN Throw("Error", <<"Unsupported pkIndex found in collection ", "[object Object]">>)
             ELSE Return(<<"( WithPk extends true ? { ">> \o pkIndex.value
                         \o <<" : ", interpolate(pkType), " } : {} )">>)

generateTypescriptOptionalPk(collectionDefinition, options) ==
    IF collectionDefinition = undefinedCollection
    THEN Throw("TypeError", <<"Cannot read property 'pkIndex' of undefined">>)
    ELSE LET pkIndex == collectionDefinition.pkIndex
             pkType == IF options.autoPkType # "generic"
                       THEN lookup(DEFAULT_FIELD_TYPE_MAP, options.autoPkType)
                       ELSE "number | string"
         IN  IF pkIndex.type # "string"
             THEN Throw("Error", <<"Unsupported pkIndex found in collection ", "[object Object]">>)
             ELSE Return(<<"( WithPk extends true ? { ">> \o pkIndex.value
                         \o <<" : ", interpolate(pkType), " } : {} )">>)

\* Mutant: the error does not name the collection
generateTypescriptRelationship_unnamed(relationship, options) ==
    IF isChildOfRelationship(relationship)
    THEN LET condition == <<"'">> \o relationship.alias \o <<"' extends Relationships">>
             targetCollectionIdentifier == upperFirst(relationship.targetCollection)
             autoPkType == lookup(DEFAULT_FIELD_TYPE_MAP, options.autoPkType)
         IN  Return(relationship.alias \o <<" : ">> \o condition \o <<" ? ">>
                    \o targetCollectionIdentifier \o <<" : ", interpolate(autoPkType)>>)
    ELSE IF isConnectsRelationship(relationship) THEN Return(null)
    ELSE Throw("Error", <<"Unsupported relationship type detected in collection ">>)

generateTypescriptRelationship(relationship, options) ==
    IF isChildOfRelationship(relationship)
    THEN LET condition == <<"'">> \o relationship.alias \o <<"' extends Relationships">>
             targetCollectionIdentifier == upperFirst(relationship.targetCollection)
             autoPkType == lookup(DEFAULT_FIELD_TYPE_MAP, options.autoPkType)
         IN  Return(relationship.alias \o <<" : ">> \o condition \o <<" ? ">>
                    \o targetCollectionIdentifier \o <<" : ", interpolate(autoPkType)>>)
    ELSE IF isConnectsRelationship(relationship) THEN Return(null)
    ELSE Throw("Error", <<"Unsupported relationship type detected in collection ">>
                        \o options.collectionDefinition.name)

\* Mutant: the list shape for a single relationship, the nullable one otherwise
generateTypescriptReverseRelationship_swapped(reverseRelationship, options) ==
    IF isChildOfRelationship(reverseRelationship)
    THEN LET alias == reverseRelationship.reverseAlias
             sourceCollectionIdentifier == upperFirst(reverseRelationship.sourceCollection)
             suffix == IF reverseRelationship.single THEN "[]" ELSE " | null"
         IN  Return(<<"( '">> \o alias \o <<"' extends ReverseRelationships ? { ">> \o alias
                    \o <<" : ">> \o sourceCollectionIdentifier \o <<suffix, " } : {} )">>)
    ELSE IF isConnectsRelationship(reverseRelationship) THEN Return(null)
    ELSE Throw("Error", <<"Unsupported reverse relationship type detected in collection ">>
                        \o options.collectionDefinition.name)

generateTypescriptReverseRelationship(reverseRelationship, options) ==
    IF isChildOfRelationship(reverseRelationship)
    THEN LET alias == reverseRelationship.reverseAlias
             sourceCollectionIdentifier == upperFirst(reverseRelationship.sourceCollection)
             suffix == IF reverseRelationship.single THEN " | null" ELSE "[]"
         IN  Return(<<"( '">> \o alias \o <<"' extends ReverseRelationships ? { ">> \o alias
                    \o <<" : ">> \o sourceCollectionIdentifier \o <<suffix, " } : {} )">>)
    ELSE IF isConnectsRelationship(reverseRelationship) THEN Return(null)
    ELSE Throw("Error", <<"Unsupported reverse relationship type detected in collection ">>
                        \o options.collectionDefinition.name)

\* The index of the first thrown value of a sequence of results, 0 when none
firstThrow(results) ==
    IF \A k \in 1..Len(results) : results[k].ok THEN 0
    ELSE CHOOSE k \in 1..Len(results) :
            ~results[k].ok /\ \A j \in 1..(k-1) : results[j].ok

\* Mutant: a connects relationship is skipped without a warning
RECURSIVE relationshipLoop_silent(_, _, _, _)
relationshipLoop_silent(relationships, collectionDefinition, forward, acc) ==
    IF relationships = <<>> \/ ~acc.ok THEN acc
    ELSE LET relationship == Head(relationships)
             referenced == IF forward THEN relationship.targetCollection
                           ELSE relationship.sourceCollection
             pushed == IF forward THEN relationship.alias ELSE relationship.reverseAlias
             warning ==
                IF forward
                THEN <<"Warning: 'connects' relationships are not supported yet, skipping one in collection ">>
                     \o collectionDefinition.name
                ELSE <<"Warning: 'connects' reverse relationships are not supported yet, skipping one in collection ">>
                     \o collectionDefinition.name \o <<" ", "(">> \o relationship.connects[1]
                     \o <<" <-> ">> \o relationship.connects[2] \o <<")">>
             message ==
                IF forward
                THEN <<"Unsupported relationship type detected in collection ">>
                     \o collectionDefinition.name
                ELSE <<"Unsupported reverse relationship type detected in collection ">>
                     \o collectionDefinition.name \o <<" ">>
             step ==
                IF isChildOfRelationship(relationship)
                THEN [acc EXCEPT !.referencedImports = setAdd(@, referenced),
                                 !.fields = Append(@, <<"'">> \o pushed \o <<"'">>)]
                ELSE IF isConnectsRelationship(relationship)
                THEN acc
                ELSE [acc EXCEPT !.ok = FALSE, !.type = "Error", !.message = message]
         IN  relationshipLoop_silent(Tail(relationships), collectionDefinition, forward, step)

\* Mutant: the source of a reverse relationship is not recorded
RECURSIVE relationshipLoop_forwardOnly(_, _, _, _)
relationshipLoop_forwardOnly(relationships, collectionDefinition, forward, acc) ==
    IF relationships = <<>> \/ ~acc.ok THEN acc
    ELSE LET relationship == Head(relationships)
             referenced == IF forward THEN relationship.targetCollection
                           ELSE relationship.sourceCollection
             pushed == IF forward THEN relationship.alias ELSE relationship.reverseAlias
             warning ==
                IF forward
                THEN <<"Warning: 'connects' relationships are not supported yet, skipping one in collection ">>
                     \o collectionDefinition.name
                ELSE <<"Warning: 'connects' reverse relationships are not supported yet, skipping one in collection ">>
                     \o collectionDefinition.name \o <<" ", "(">> \o relationship.connects[1]
                     \o <<" <-> ">> \o relationship.connects[2] \o <<")">>
             message ==
                IF forward
                THEN <<"Unsupported relationship type detected in collection ">>
                     \o collectionDefinition.name
                ELSE <<"Unsupported reverse relationship type detected in collection ">>
                     \o collectionDefinition.name \o <<" ">>
             step ==
                IF isChildOfRelationship(relationship)
                THEN [acc EXCEPT !.referencedImports = IF forward THEN setAdd(@, referenced) ELSE @,
                                 !.fields = Append(@, <<"'">> \o pushed \o <<"'">>)]
                ELSE IF isConnectsRelationship(relationship)
                THEN [acc EXCEPT !.warnings = Append(@, warning)]
                ELSE [acc EXCEPT !.ok = FALSE, !.type = "Error", !.message = message]
         IN  relationshipLoop_forwardOnly(Tail(relationships), collectionDefinition, forward, step)

\* What a loop body leaves behind: the names pushed, the set of referenced
\* imports, the warnings printed, and the error thrown (if any)
RECURSIVE relationshipLoop(_, _, _, _)
relationshipLoop(relationships, collectionDefinition, forward, acc) ==
    IF relationships = <<>> \/ ~acc.ok THEN acc
    ELSE LET relationship == Head(relationships)
             referenced == IF forward THEN relationship.targetCollection
                           ELSE relationship.sourceCollection
             pushed == IF forward THEN relationship.alias ELSE relationship.reverseAlias
             warning ==
                IF forward
                THEN <<"Warning: 'connects' relationships are not supported yet, skipping one in collection ">>
                     \o collectionDefinition.name
                ELSE <<"Warning: 'connects' reverse relationships are not supported yet, skipping one in collection ">>
                     \o collectionDefinition.name \o <<" ", "(">> \o relationship.connects[1]
                     \o <<" <-> ">> \o relationship.connects[2] \o <<")">>
             message ==
                IF forward
                THEN <<"Unsupported relationship type detected in collection ">>
                     \o collectionDefinition.name
                ELSE <<"Unsupported reverse relationship type detected in collection ">>
                     \o collectionDefinition.name \o <<" ">>
             step ==
                IF isChildOfRelationship(relationship)
                THEN [acc EXCEPT !.referencedImports = setAdd(@, referenced),
                                 !.fields = Append(@, <<"'">> \o pushed \o <<"'">>)]
                ELSE IF isConnectsRelationship(relationship)
                THEN [acc EXCEPT !.warnings = Append(@, warning)]
                ELSE [acc EXCEPT !.ok = FALSE, !.type = "Error", !.message = message]
         IN  relationshipLoop(Tail(relationships), collectionDefinition, forward, step)

\* Mutant: the header of a collection without relationships is not special
generateTypescriptInterfaceParameters_noShortHeader(collectionDefinition, options) ==
    LET start == [ok |-> TRUE, type |-> "", message |-> <<>>, fields |-> <<>>,
                  referencedImports |-> options.context.referencedImports,
                  warnings |-> <<>>]
        forward == relationshipLoop(collectionDefinition.relationships,
                                    collectionDefinition, TRUE, start)
        relationshipFields == Append(forward.fields, <<"null">>)
        reverse == relationshipLoop(collectionDefinition.reverseRelationshipsByAlias,
                                    collectionDefinition, FALSE,
                                    [forward EXCEPT !.fields = <<>>])
        reverseRelationshipFields == Append(reverse.fields, <<"null">>)
        effects(r) == [referencedImports |-> r.referencedImports, warnings |-> r.warnings]
    IN  IF ~forward.ok THEN Throw(forward.type, forward.message) @@ effects(forward)
        ELSE IF ~reverse.ok THEN Throw(reverse.type, reverse.message) @@ effects(reverse)
        ELSE Return(<<"<">>
                    \o join(<< <<"WithPk extends boolean = true">>,
                               <<"Relationships extends ">>
                                   \o join(relationshipFields, <<" | ">>) \o <<" = null">> >>
                            \o (IF Len(reverseRelationshipFields) > 1
                                THEN << <<"ReverseRelationships extends ">>
                                        \o join(reverseRelationshipFields, <<" | ">>)
                                        \o <<" = null">> >>
                                ELSE <<>>),
                            <<", ">>)
                    \o <<">">>) @@ effects(reverse)

\* Mutant: the null sentinel is pushed before the aliases
generateTypescriptInterfaceParameters_nullFirst(collectionDefinition, options) ==
    LET start == [ok |-> TRUE, type |-> "", message |-> <<>>, fields |-> <<>>,
                  referencedImports |-> options.context.referencedImports,
                  warnings |-> <<>>]
        forward == relationshipLoop(collectionDefinition.relationships,
                                    collectionDefinition, TRUE, start)
        relationshipFields == << <<"null">> >> \o forward.fields
        reverse == relationshipLoop(collectionDefinition.reverseRelationshipsByAlias,
                                    collectionDefinition, FALSE,
                                    [forward EXCEPT !.fields = <<>>])
        reverseRelationshipFields == Append(reverse.fields, <<"null">>)
        effects(r) == [referencedImports |-> r.referencedImports, warnings |-> r.warnings]
    IN  IF collectionDefinition.relationships = <<>>
           /\ collectionDefinition.reverseRelationshipsByAlias = <<>>
        THEN Return(<<"<WithPk extends boolean = true>">>) @@ effects(start)
        ELSE IF ~forward.ok THEN Throw(forward.type, forward.message) @@ effects(forward)
        ELSE IF ~reverse.ok THEN Throw(reverse.type, reverse.message) @@ effects(reverse)
        ELSE Return(<<"<">>
                    \o join(<< <<"WithPk extends boolean = true">>,
                               <<"Relationships extends ">>
                                   \o join(relationshipFields, <<" | ">>) \o <<" = null">> >>
                            \o (IF Len(reverseRelationshipFields) > 1
                                THEN << <<"ReverseRelationships extends ">>
                                        \o join(reverseRelationshipFields, <<" | ">>)
                                        \o <<" = null">> >>
                                ELSE <<>>),
                            <<", ">>)
                    \o <<">">>) @@ effects(reverse)

\* Mutant: ReverseRelationships is declared for any reverse relationship
generateTypescriptInterfaceParameters_anyReverse(collectionDefinition, options) ==
    LET start == [ok |-> TRUE, type |-> "", message |-> <<>>, fields |-> <<>>,
                  referencedImports |-> options.context.referencedImports,
                  warnings |-> <<>>]
        forward == relationshipLoop(collectionDefinition.relationships,
                                    collectionDefinition, TRUE, start)
        relationshipFields == Append(forward.fields, <<"null">>)
        reverse == relationshipLoop(collectionDefinition.reverseRelationshipsByAlias,
                                    collectionDefinition, FALSE,
                                    [forward EXCEPT !.fields = <<>>])
        reverseRelationshipFields == Append(reverse.fields, <<"null">>)
        effects(r) == [referencedImports |-> r.referencedImports, warnings |-> r.warnings]
    IN  IF collectionDefinition.relationships = <<>>
           /\ collectionDefinition.reverseRelationshipsByAlias = <<>>
        THEN Return(<<"<WithPk extends boolean = true>">>) @@ effects(start)
        ELSE IF ~forward.ok THEN Throw(forward.type, forward.message) @@ effects(forward)
        ELSE IF ~reverse.ok THEN Throw(reverse.type, reverse.message) @@ effects(reverse)
        ELSE Return(<<"<">>
                    \o join(<< <<"WithPk extends boolean = true">>,
                               <<"Relationships extends ">>
                                   \o join(relationshipFields, <<" | ">>) \o <<" = null">> >>
                            \o (IF collectionDefinition.reverseRelationshipsByAlias # <<>>
                                THEN << <<"ReverseRelationships extends ">>
                                        \o join(reverseRelationshipFields, <<" | ">>)
                                        \o <<" = null">> >>
                                ELSE <<>>),
                            <<", ">>)
                    \o <<">">>) @@ effects(reverse)

\* Mutant: the short header whenever there is no forward relationship
generateTypescriptInterfaceParameters_shortWithoutForward(collectionDefinition, options) ==
    LET start == [ok |-> TRUE, type |-> "", message |-> <<>>, fields |-> <<>>,
                  referencedImports |-> options.context.referencedImports,
                  warnings |-> <<>>]
        forward == relationshipLoop(collectionDefinition.relationships,
                                    collectionDefinition, TRUE, start)
        relationshipFields == Append(forward.fields, <<"null">>)
        reverse == relationshipLoop(collectionDefinition.reverseRelationshipsByAlias,
                                    collectionDefinition, FALSE,
                                    [forward EXCEPT !.fields = <<>>])
        reverseRelationshipFields == Append(reverse.fields, <<"null">>)
        effects(r) == [referencedImports |-> r.referencedImports, warnings |-> r.warnings]
    IN  IF collectionDefinition.relationships = <<>>
        THEN Return(<<"<WithPk extends boolean = true>">>) @@ effects(start)
        ELSE IF ~forward.ok THEN Throw(forward.type, forward.message) @@ effects(forward)
        ELSE IF ~reverse.ok THEN Throw(reverse.type, reverse.message) @@ effects(reverse)
        ELSE Return(<<"<">>
                    \o join(<< <<"WithPk extends boolean = true">>,
                               <<"Relationships extends ">>
                                   \o join(relationshipFields, <<" | ">>) \o <<" = null">> >>
                            \o (IF Len(reverseRelationshipFields) > 1
                                THEN << <<"ReverseRelationships extends ">>
                                        \o join(reverseRelationshipFields, <<" | ">>)
                                        \o <<" = null">> >>
                                ELSE <<>>),
                            <<", ">>)
                    \o <<">">>) @@ effects(reverse)


generateTypescriptInterfaceParameters(collectionDefinition, options) ==
    LET start == [ok |-> TRUE, type |-> "", message |-> <<>>, fields |-> <<>>,
                  referencedImports |-> options.context.referencedImports,
                  warnings |-> <<>>]
        forward == relationshipLoop(collectionDefinition.relationships,
                                    collectionDefinition, TRUE, start)
        relationshipFields == Append(forward.fields, <<"null">>)
        reverse == relationshipLoop(collectionDefinition.reverseRelationshipsByAlias,
                                    collectionDefinition, FALSE,
                                    [forward EXCEPT !.fields = <<>>])
        reverseRelationshipFields == Append(reverse.fields, <<"null">>)
        effects(r) == [referencedImports |-> r.referencedImports, warnings |-> r.warnings]
    IN  IF collectionDefinition.relationships = <<>>
           /\ collectionDefinition.reverseRelationshipsByAlias = <<>>
        THEN Return(<<"<WithPk extends boolean = true>">>) @@ effects(start)
        ELSE IF ~forward.ok THEN Throw(forward.type, forward.message) @@ effects(forward)
        ELSE IF ~reverse.ok THEN Throw(reverse.type, reverse.message) @@ effects(reverse)
        ELSE Return(<<"<">>
                    \o join(<< <<"WithPk extends boolean = true">>,
                               <<"Relationships extends ">>
                                   \o join(relationshipFields, <<" | ">>) \o <<" = null">> >>
                            \o (IF Len(reverseRelationshipFields) > 1
                                THEN << <<"ReverseRelationships extends ">>
                                        \o join(reverseRelationshipFields, <<" | ">>)
                                        \o <<" = null">> >>
                                ELSE <<>>),
                            <<", ">>)
                    \o <<">">>) @@ effects(reverse)

\* The locals of one run of generateTypescriptInterface, kept with its result
noLocals == [pkLine |-> <<>>, fieldLines |-> <<>>, relationshipLines |-> <<>>,
             reverseRelationships |-> <<>>, interfaceParameters |-> <<>>]

generateTypescriptInterface(collectionDefinition, options) ==
    LET unchanged == [referencedImports |-> options.context.referencedImports,
                      warnings |-> <<>>, locals |-> noLocals]
        pkLine == generateTypescriptOptionalPk(collectionDefinition, options)
        fieldPairs == collectionDefinition.fields
        fieldResults == [k \in 1..Len(fieldPairs) |->
            generateTypescriptField(fieldPairs[k][2],
                [options EXCEPT !.collectionDefinition = collectionDefinition,
                                !.fieldName = fieldPairs[k][1]])]
        fieldLines == filterTruthy([k \in 1..Len(fieldPairs) |-> fieldResults[k].value])
        fields == inIndentedBlock(fieldLines)
        relationshipResults == [k \in 1..Len(collectionDefinition.relationships) |->
            generateTypescriptRelationship(collectionDefinition.relationships[k],
                [options EXCEPT !.collectionDefinition = collectionDefinition])]
        relationshipLines == filterTruthy(
            [k \in 1..Len(relationshipResults) |-> relationshipResults[k].value])
        relationships == inIndentedBlock(relationshipLines)
        reverseResults == [k \in 1..Len(collectionDefinition.reverseRelationshipsByAlias) |->
            generateTypescriptReverseRelationship(
                collectionDefinition.reverseRelationshipsByAlias[k],
                [options EXCEPT !.collectionDefinition = collectionDefinition])]
        reverseRelationships == filterTruthy(
            [k \in 1..Len(reverseResults) |-> reverseResults[k].value])
        body == join(<<pkLine.value>>
                     \o (IF truthy(fields) THEN <<fields>> ELSE <<>>)
                     \o (IF truthy(relationships) THEN <<relationships>> ELSE <<>>)
                     \o (IF Len(reverseRelationships) # 0 THEN reverseRelationships ELSE <<>>),
                     <<" &", NL>>)
        interfaceParameters == generateTypescriptInterfaceParameters(collectionDefinition, options)
        firstLine == <<"export type ">> \o upperFirst(collectionDefinition.name)
                     \o interfaceParameters.value \o <<" =">>
    IN  IF ~pkLine.ok THEN pkLine @@ unchanged
        ELSE IF firstThrow(fieldResults) # 0
        THEN fieldResults[firstThrow(fieldResults)] @@ unchanged
        ELSE IF firstThrow(relationshipResults) # 0
        THEN relationshipResults[firstThrow(relationshipResults)] @@ unchanged
        ELSE IF firstThrow(reverseResults) # 0
        THEN reverseResults[firstThrow(reverseResults)] @@ unchanged
        ELSE IF ~interfaceParameters.ok
        THEN interfaceParameters @@ [locals |-> noLocals]
        ELSE [ok |-> TRUE,
              value |-> firstLine \o <<NL>> \o indent(body),
              referencedImports |-> interfaceParameters.referencedImports,
              warnings |-> interfaceParameters.warnings,
              locals |-> [pkLine |-> pkLine.value, fieldLines |-> fieldLines,
                          relationshipLines |-> relationshipLines,
                          reverseRelationships |-> reverseRelationships,
                          interfaceParameters |-> interfaceParameters.value]]

\* The caller's import resolvers: a function from a collection name to a path
generateImport(resolver, collectionName) ==
    IF resolver = "sibling" THEN <<"./">> \o collectionName
    ELSE <<"../types/">> \o collectionName

\* Mutant: every referenced name is imported
generateTypescriptImports_all(collections, options) ==
    IF Len(collections) = 0 \/ options.generateImport = <<>> THEN null
    ELSE join([k \in 1..Len(collections) |->
                 <<"import { ">> \o upperFirst(collections[k]) \o <<" } from '">>
                 \o generateImport(options.generateImport[1], collections[k]) \o <<"' ">>],
              <<NL>>)

generateTypescriptImports(collections, options) ==
    IF Len(collections) = 0 \/ options.generateImport = <<>> THEN null
    ELSE join(filterTruthy([k \in 1..Len(collections) |->
                 IF notIn(options.collections, collections[k])
                 THEN <<"import { ">> \o upperFirst(collections[k]) \o <<" } from '">>
                      \o generateImport(options.generateImport[1], collections[k]) \o <<"' ">>
                 ELSE null]),
              <<NL>>)

\* ------------------------------------------------- snapshot part_000
\* The later snapshot: a skip list, an unconditional primary-key segment and
\* no relationships.  getTypescriptFieldType, generateTypescriptImports,
\* indent and inIndentedBlock are the same text as in index.ts.

\* Mutant: the skip list is read after the type is resolved
generateTypescriptField_part000_lateSkip(fieldDefinition, options) ==
    LET pkIndex == options.collectionDefinition.pkIndex
        optional == IF fieldDefinition.optional THEN <<"?">> ELSE <<>>
        type == getTypescriptFieldType(fieldDefinition, options)
    IN  IF fieldDefinition.type = "foreign-key" THEN Return(null)
        ELSE IF pkIndex.type = "string" /\ options.fieldName = pkIndex.value THEN Return(null)
        ELSE IF ~type.ok THEN type
        ELSE IF options.skipTypes # <<>> /\ ~notIn(options.skipTypes[1], fieldDefinition.type)
        THEN Return(null)
        ELSE Return(options.fieldName \o optional \o <<" : ", interpolate(type.value)>>)

generateTypescriptField_part000(fieldDefinition, options) ==
    LET pkIndex == options.collectionDefinition.pkIndex
        optional == IF fieldDefinition.optional THEN <<"?">> ELSE <<>>
        type == getTypescriptFieldType(fieldDefinition, options)
    IN  IF fieldDefinition.type = "foreign-key" THEN Return(null)
        ELSE IF options.skipTypes # <<>> /\ ~notIn(options.skipTypes[1], fieldDefinition.type)
        THEN Return(null)
        ELSE IF pkIndex.type = "string" /\ options.fieldName = pkIndex.value THEN Return(null)
        ELSE IF ~type.ok THEN type
        ELSE Return(options.fieldName \o optional \o <<" : ", interpolate(type.value)>>)

generateTypescriptOptionalPk_part000(collectionDefinition, options) ==
    IF collectionDefinition = undefinedCollection
    THEN Throw("TypeError", <<"Cannot read property 'pkIndex' of undefined">>)
    ELSE LET pkIndex == collectionDefinition.pkIndex
             pkType == IF options.autoPkType # "generic"
                       THEN lookup(DEFAULT_FIELD_TYPE_MAP, options.autoPkType)
                       ELSE "number | string"
         IN  IF pkIndex.type # "string"
             THEN Throw("Error", <<"Unsupported pkIndex found in collection ", "[object Object]">>)
             ELSE Return(<<"{ ">> \o pkIndex.value \o <<" : ", interpolate(pkType), " }">>)

generateTypescriptInterface_part000(collectionDefinition, options) ==
    LET unchanged == [referencedImports |-> options.context.referencedImports,
                      warnings |-> <<>>, locals |-> noLocals]
        pkLine == generateTypescriptOptionalPk_part000(collectionDefinition, options)
        fieldPairs == collectionDefinition.fields
        fieldResults == [k \in 1..Len(fieldPairs) |->
            generateTypescriptField_part000(fieldPairs[k][2],
                [options EXCEPT !.collectionDefinition = collectionDefinition,
                                !.fieldName = fieldPairs[k][1]])]
        fieldLines == filterTruthy([k \in 1..Len(fieldPairs) |-> fieldResults[k].value])
        fields == inIndentedBlock(fieldLines)
        body == join(<<pkLine.value>> \o (IF truthy(fields) THEN <<fields>> ELSE <<>>),
                     <<" &", NL>>)
        firstLine == <<"export type ">> \o upperFirst(collectionDefinition.name) \o <<" =">>
    IN  IF ~pkLine.ok THEN pkLine @@ unchanged
        ELSE IF firstThrow(fieldResults) # 0
        THEN fieldResults[firstThrow(fieldResults)] @@ unchanged
        ELSE [ok |-> TRUE,
              value |-> firstLine \o <<NL>> \o indent(body),
              referencedImports |-> options.context.referencedImports,
              warnings |-> <<>>,
              locals |-> [noLocals EXCEPT !.pkLine = pkLine.value,
                                          !.fieldLines = fieldLines]]

\* ------------------------------------- the flat variant (index.ts 234-310)
\* The early generator: one `export interface` per collection, the fields
\* with the primary key first, no relationships and no imports.
DEFAULT_FIELD_TYPE_MAP_flat == [string |-> "string", int |-> "number", bool |-> "boolean"]

getTypescriptFieldType_flat(fieldDefinition, options) ==
    LET fieldTypeMap == IF options.fieldTypeMap # <<>> THEN options.fieldTypeMap[1]
                        ELSE DEFAULT_FIELD_TYPE_MAP_flat
        storexFieldType == fieldDefinition.type
        typescriptFieldType == lookup(fieldTypeMap, storexFieldType)
    IN  IF storexFieldType = "auto-pk" THEN Return(lookup(fieldTypeMap, options.autoPkType))
        ELSE IF typescriptFieldType = undefined \/ typescriptFieldType = ""
        THEN Throw("Error",
                   <<"Could not translate type '", storexFieldType, "' of field '">>
                   \o options.collectionName \o <<".">> \o options.fieldName
                   \o <<"' to TypeScript type.",
                        "Please use the 'fieldTypeMap' option for custom fields">>)
        ELSE Return(typescriptFieldType)

generateTypescriptField_flat(fieldDefinition, options) ==
    LET type == getTypescriptFieldType_flat(fieldDefinition, options)
    IN  IF ~type.ok THEN type
        ELSE Return(options.fieldName \o <<" : ", interpolate(type.value)>>)

\* fields.findIndex(pair => pair[0] === pkIndex), counted from 0, -1 when
\* no pair passes
findIndex(array, pkIndex) ==
    IF \A k \in 1..Len(array) : array[k][1] # pkIndex THEN -1
    ELSE (CHOOSE k \in 1..Len(array) :
            array[k][1] = pkIndex /\ \A j \in 1..(k-1) : array[j][1] # pkIndex) - 1

\* array[index] of an array of pairs: outside the array it is undefined,
\* written as a tuple so that it compares with a pair
undefinedPair == <<undefined>>
at(array, index) == IF index + 1 \in 1..Len(array) THEN array[index + 1] ELSE undefinedPair

\* Array.prototype.splice(start, 1): a negative start counts from the end
splice1(array, start) ==
    LET from == IF start < 0 THEN (IF Len(array) + start < 0 THEN 0 ELSE Len(array) + start)
                ELSE IF start > Len(array) THEN Len(array) ELSE start
    IN  SubSeq(array, 1, from) \o SubSeq(array, from + 2, Len(array))

\* Mutant: the primary key is put first and left where it was
sortFieldPairs_kept(fields, options) ==
    LET pkIndex == options.collectionDefinition.pkIndex
        fieldIndex == findIndex(fields, pkIndex.value)
        fieldPair == at(fields, fieldIndex)
    IN  IF pkIndex.type # "string"
        THEN Throw("Error", <<"Unsupported pkIndex on collection '">>
                            \o options.collectionDefinition.name \o <<"'">>)
        ELSE Return(<<fieldPair>> \o fields)

sortFieldPairs(fields, options) ==
    LET pkIndex == options.collectionDefinition.pkIndex
        fieldIndex == findIndex(fields, pkIndex.value)
        fieldPair == at(fields, fieldIndex)
    IN  IF pkIndex.type # "string"
        THEN Throw("Error", <<"Unsupported pkIndex on collection '">>
                            \o options.collectionDefinition.name \o <<"'">>)
        ELSE Return(<<fieldPair>> \o splice1(fields, fieldIndex))

generateTypescriptInterface_flat(collectionDefinition, options) ==
    IF collectionDefinition = undefinedCollection
    THEN Throw("TypeError", <<"Cannot read property 'fields' of undefined">>)
                @@ [locals |-> noLocals]
    ELSE
    LET fieldPairs == sortFieldPairs(collectionDefinition.fields,
                                     [collectionDefinition |-> collectionDefinition])
        pairs == fieldPairs.value
        fieldResults == [k \in 1..Len(pairs) |->
            IF pairs[k] = undefinedPair
            THEN Throw("TypeError", <<"undefined is not iterable">>)
            ELSE generateTypescriptField_flat(pairs[k][2],
                    [collectionName |-> collectionDefinition.name,
                     fieldName |-> pairs[k][1]] @@ options)]
        lines == [k \in 1..Len(pairs) |-> fieldResults[k].value]
        body == join(lines, <<NL>>)
    IN  IF ~fieldPairs.ok THEN fieldPairs @@ [locals |-> noLocals]
        ELSE IF firstThrow(fieldResults) # 0
        THEN fieldResults[firstThrow(fieldResults)] @@ [locals |-> noLocals]
        ELSE [ok |-> TRUE,
              value |-> <<"export interface ">> \o upperFirst(collectionDefinition.name)
                        \o <<" {", NL>> \o indent(body) \o <<NL, "}">>,
              locals |-> [noLocals EXCEPT !.fieldLines = lines]]

\* ------------------------------------------------------------ the inputs
foo == <<"f", "o", "o">>
bar == <<"b", "a", "r">>
tag == <<"t", "a", "g">>
odd == <<"o", "d", "d">>
hub == <<"h", "u", "b">>
mid == <<"m", "i", "d">>
cmp == <<"c", "m", "p">>
test == <<"t", "e", "s", "t">>
gone == <<"g", "o", "n", "e">>
id == <<"i", "d">>

field(type, optional) == [type |-> type, optional |-> optional]

childOf(source, target, alias, reverseAlias, single) ==
    [kind |-> "childOf", alias |-> alias, reverseAlias |-> reverseAlias,
     targetCollection |-> target, sourceCollection |-> source, single |-> single,
     connects |-> <<>>]

connects(source, first, second) ==
    [kind |-> "connects", alias |-> <<>>, reverseAlias |-> <<>>,
     targetCollection |-> <<>>, sourceCollection |-> source, single |-> FALSE,
     connects |-> <<first, second>>]

\* A relationship definition that is neither child-of nor connects
otherRelationship(source) ==
    [kind |-> "other", alias |-> <<>>, reverseAlias |-> <<>>,
     targetCollection |-> <<>>, sourceCollection |-> source, single |-> FALSE,
     connects |-> <<>>]

collection(name, pkIndex, fields, relationships, reverseRelationshipsByAlias) ==
    [name |-> name, pkIndex |-> pkIndex, fields |-> fields,
     relationships |-> relationships,
     reverseRelationshipsByAlias |-> reverseRelationshipsByAlias]

stringIndex(fieldName) == [type |-> "string", value |-> fieldName]
compoundIndex(fieldNames) == [type |-> "object", value |-> fieldNames]

barChildOfFoo == childOf(bar, foo, foo, <<"b", "a", "r", "s">>, FALSE)
tagSingleChildOfFoo == childOf(tag, foo, foo, tag, TRUE)
tagChildOfFooAsTop == childOf(tag, foo, <<"t", "o", "p">>, <<"s", "u", "b", "s">>, FALSE)
tagConnects == connects(tag, foo, bar)
midChildOfFoo == childOf(mid, foo, foo, <<"m", "i", "d", "s">>, FALSE)
barChildOfMid == childOf(bar, mid, mid, <<"b", "a", "r", "s">>, FALSE)

\* The registry after finishInitialization: the collections of the tests
\* (foo, bar, and a collection with a compound index), a collection that
\* connects two others, one with an unknown relationship variant and the
\* one that holds it as a reverse relationship, one that is both a child
\* and a parent, and the
\* collection `test`, whose fields and primary key are the parameters
Registry(testFields, testPk) ==
    (foo :> collection(foo, stringIndex(id),
                << <<id, field("auto-pk", FALSE)>>,
                   <<<<"s", "p", "a", "m">>, field("string", FALSE)>>,
                   <<<<"a", "t">>, field("timestamp", FALSE)>>,
                   <<<<"m", "e", "t", "a">>, field("json", FALSE)>>,
                   <<<<"o", "k">>, field("boolean", TRUE)>> >>,
                <<>>,
                <<tagSingleChildOfFoo, tagConnects, barChildOfFoo, tagChildOfFooAsTop,
                  midChildOfFoo>>))
    @@ (bar :> collection(bar, stringIndex(id),
                << <<id, field("auto-pk", FALSE)>>,
                   <<<<"e", "g", "g", "s">>, field("text", FALSE)>>,
                   <<<<"f", "o", "o", "R", "e", "l">>, field("foreign-key", FALSE)>>,
                   <<<<"s", "c", "o", "r", "e">>, field("float", FALSE)>>,
                   <<<<"s", "e", "t">>, field("datetime", FALSE)>>,
                   <<<<"s", "i", "z", "e">>, field("int", TRUE)>> >>,
                <<barChildOfFoo, barChildOfMid>>,
                <<tagConnects>>))
    @@ (tag :> collection(tag, stringIndex(id),
                << <<id, field("auto-pk", FALSE)>>,
                   <<<<"f", "o", "o", "R", "e", "l">>, field("foreign-key", FALSE)>>,
                   <<<<"s", "e", "t">>, field("datetime", TRUE)>> >>,
                <<tagConnects, tagSingleChildOfFoo, tagChildOfFooAsTop>>,
                <<>>))
    @@ (odd :> collection(odd, stringIndex(id),
                << <<id, field("auto-pk", FALSE)>>,
                   <<<<"m", "e", "m", "o">>, field("json", FALSE)>> >>,
                <<otherRelationship(odd)>>,
                <<>>))
    @@ (mid :> collection(mid, stringIndex(id),
                << <<id, field("auto-pk", FALSE)>>,
                   <<<<"n", "o", "t", "e">>, field("string", TRUE)>> >>,
                <<midChildOfFoo>>,
                <<barChildOfMid>>))
    @@ (hub :> collection(hub, stringIndex(id),
                << <<id, field("auto-pk", FALSE)>>,
                   <<<<"k", "e", "y">>, field("string", FALSE)>> >>,
                <<>>,
                <<otherRelationship(odd)>>))
    @@ (cmp :> collection(cmp, compoundIndex(<< <<"a">>, <<"b">> >>),
                << <<<<"a">>, field("string", FALSE)>>,
                   <<<<"b">>, field("string", FALSE)>> >>,
                <<>>, <<>>))
    @@ (test :> collection(test, testPk, testFields, <<>>, <<>>))

\* The kinds and flags a field of `test` is drawn from
FieldPool ==
    {field("string", FALSE), field("datetime", TRUE), field("auto-pk", FALSE),
     field("foreign-key", TRUE), field("media", FALSE), field("blob", TRUE)}

\* The name of the k-th field of `test`
FieldNames == << <<"a">>, <<"b">>, <<"c">>, <<"x">> >>

\* The field mappings of `test`: up to MaxFields fields named in order
TestFields ==
    UNION {{[k \in 1..n |-> <<FieldNames[k], defs[k]>>] : defs \in [1..n -> FieldPool]}
           : n \in 0..MaxFields}

\* The primary key of `test`: one of its fields, or the field `id` the
\* mapping does not hold
TestPks(fields) == {stringIndex(id)} \cup {stringIndex(fields[k][1]) : k \in 1..Len(fields)}

defaultTestFields == << <<id, field("auto-pk", FALSE)>>,
                        <<<<"a">>, field("string", FALSE)>> >>

CollectionNames == {foo, bar, tag, mid, odd, hub, cmp, test, gone}

Requests == UNION {[1..n -> CollectionNames] : n \in 0..MaxCollections}

AutoPkTypes == {"string", "int", "generic"}

\* Override mappings: one that only adds the custom kind, one that repeats
\* the default table, changes an entry and adds the custom kind
customOnlyMap == [media |-> "Media"]
extendedMap == [DEFAULT_FIELD_TYPE_MAP EXCEPT !.datetime = "number"] @@ customOnlyMap
FieldTypeMaps == {<<>>, <<customOnlyMap>>, <<extendedMap>>}

Resolvers == {<<>>, <<"sibling">>, <<"types">>}

\* ------------------------------------------------------------- the state
VARIABLES
    snapshot,         \* which snapshot of the generator runs
    storageRegistry,  \* the registry handed to generateTypescriptInterfaces
    options,          \* its options
    pc,               \* "idle", "map", "done" or "failed"
    context,          \* the GenerationContext of the call
    interfaces,       \* the strings the map over options.collections returned
    locals,           \* the locals of each generateTypescriptInterface run
    warnings,         \* what console.warn printed
    resolverCalls,    \* the names generateImport was called with
    error,            \* the thrown value
    result,           \* the returned string
    calls             \* what the caller's earlier calls were given and got

vars == <<snapshot, storageRegistry, options, pc, context, interfaces, locals,
          warnings, resolverCalls, error, result, calls>>

noError == [type |-> "", message |-> <<>>]
noResult == <<"<no result>">>

Options(autoPkType, fieldTypeMap, request, resolver, skipTypes) ==
    [autoPkType |-> autoPkType, fieldTypeMap |-> fieldTypeMap, collections |-> request,
     generateImport |-> resolver, skipTypes |-> skipTypes,
     context |-> [referencedImports |-> <<>>],
     collectionDefinition |-> undefinedCollection, fieldName |-> <<>>]

\* The inputs: either `test` is requested alone and its fields vary, or the
\* request varies and `test` has the fields of the first test
Init ==
    /\ \/ \E fields \in TestFields, autoPkType \in AutoPkTypes,
             fieldTypeMap \in FieldTypeMaps :
             /\ \E pk \in TestPks(fields) : storageRegistry = Registry(fields, pk)
             /\ \/ /\ snapshot = "index"
                   /\ options = Options(autoPkType, fieldTypeMap, <<test>>, <<>>, <<>>)
                \/ /\ snapshot = "part_000"
                   /\ options = Options(autoPkType, fieldTypeMap, <<test>>, <<>>,
                                        << <<"media">> >>)
       \/ \E request \in Requests, autoPkType \in AutoPkTypes,
             fieldTypeMap \in {<<>>, <<extendedMap>>}, resolver \in Resolvers :
             /\ storageRegistry = Registry(defaultTestFields, stringIndex(id))
             /\ resolver = <<"types">> => autoPkType = "int" /\ fieldTypeMap = <<>>
             /\ \/ /\ snapshot = "index"
                   /\ options = Options(autoPkType, fieldTypeMap, request, resolver, <<>>)
                \/ /\ snapshot = "part_000"
                   /\ resolver = <<>>
                   /\ options = Options(autoPkType, fieldTypeMap, request, <<>>, <<>>)
    /\ pc = "idle"
    /\ context = [referencedImports |-> <<>>]
    /\ interfaces = <<>>
    /\ locals = <<>>
    /\ warnings = <<>>
    /\ resolverCalls = <<>>
    /\ error = noError
    /\ result = noResult
    /\ calls = <<>>

\* Mutant: the context is created once and kept between calls
Start_sharedContext ==
    /\ pc = "idle"
    /\ pc' = "map"
    /\ context' = context
    /\ UNCHANGED <<snapshot, storageRegistry, options, interfaces, locals, warnings,
                   resolverCalls, error, result, calls>>

\* generateTypescriptInterfaces, its first statement: a fresh context
Start ==
    /\ pc = "idle"
    /\ pc' = "map"
    /\ context' = [referencedImports |-> <<>>]
    /\ UNCHANGED <<snapshot, storageRegistry, options, interfaces, locals, warnings,
                   resolverCalls, error, result, calls>>

\* The collection the map is at, as the registry holds it
current ==
    LET collectionName == options.collections[Len(interfaces) + 1]
    IN  IF collectionName \in DOMAIN storageRegistry
        THEN storageRegistry[collectionName] ELSE undefinedCollection

\* One call of the map's callback
callback ==
    LET passed == [options EXCEPT !.context = context]
    IN  IF snapshot = "index" THEN generateTypescriptInterface(current, passed)
        ELSE generateTypescriptInterface_part000(current, passed)

\* Mutant: every collection gets a context of its own
MapInterface_contextPerCollection ==
    /\ pc = "map"
    /\ Len(interfaces) < Len(options.collections)
    /\ callback.ok
    /\ interfaces' = Append(interfaces, callback.value)
    /\ locals' = Append(locals, callback.locals)
    /\ context' = [referencedImports |->
                      IF snapshot = "index"
                      THEN generateTypescriptInterface(current, options).referencedImports
                      ELSE generateTypescriptInterface_part000(current, options).referencedImports]
    /\ warnings' = warnings \o callback.warnings
    /\ UNCHANGED <<snapshot, storageRegistry, options, pc, resolverCalls, error, result,
                   calls>>

\* The callback returns a declaration
MapInterface ==
    /\ pc = "map"
    /\ Len(interfaces) < Len(options.collections)
    /\ callback.ok
    /\ interfaces' = Append(interfaces, callback.value)
    /\ locals' = Append(locals, callback.locals)
    /\ context' = [referencedImports |-> callback.referencedImports]
    /\ warnings' = warnings \o callback.warnings
    /\ UNCHANGED <<snapshot, storageRegistry, options, pc, resolverCalls, error, result,
                   calls>>

\* Mutant: a collection that throws is left out and the map goes on
MapThrows_leftOut ==
    /\ pc = "map"
    /\ Len(interfaces) < Len(options.collections)
    /\ ~callback.ok
    /\ interfaces' = Append(interfaces, <<>>)
    /\ locals' = Append(locals, noLocals)
    /\ context' = [referencedImports |-> callback.referencedImports]
    /\ warnings' = warnings \o callback.warnings
    /\ UNCHANGED <<snapshot, storageRegistry, options, pc, resolverCalls, error, result,
                   calls>>

\* The callback throws, and so does generateTypescriptInterfaces
MapThrows ==
    /\ pc = "map"
    /\ Len(interfaces) < Len(options.collections)
    /\ ~callback.ok
    /\ pc' = "failed"
    /\ error' = [type |-> callback.type, message |-> callback.message]
    /\ context' = [referencedImports |-> callback.referencedImports]
    /\ warnings' = warnings \o callback.warnings
    /\ UNCHANGED <<snapshot, storageRegistry, options, interfaces, locals,
                   resolverCalls, result, calls>>

\* The names generateTypescriptImports hands to the resolver
resolved(collections, opts) ==
    IF Len(collections) = 0 \/ opts.generateImport = <<>> THEN <<>>
    ELSE SelectSeq(collections, LAMBDA name : notIn(opts.collections, name))

\* Mutant: the declarations joined by one line break
joinInterfaces_oneBreak(declarations) == join(declarations, <<NL>>) \o <<NL>>

\* generateTypescriptInterfaces: the declarations joined
joinInterfaces(declarations) == join(declarations, <<NL, NL>>) \o <<NL>>

\* generateTypescriptInterfaces: the returned string
output(imports, joined) ==
    join((IF truthy(imports) THEN <<imports>> ELSE <<>>) \o <<joined>>, <<NL, NL>>)

\* generateTypescriptInterfaces, after the map: join, imports, return
ReturnOutput ==
    /\ pc = "map"
    /\ Len(interfaces) = Len(options.collections)
    /\ LET passed == [options EXCEPT !.context = context]
           imports == generateTypescriptImports(context.referencedImports, passed)
       IN  /\ result' = output(imports, joinInterfaces(interfaces))
           /\ resolverCalls' = resolverCalls \o resolved(context.referencedImports, passed)
    /\ pc' = "done"
    /\ UNCHANGED <<snapshot, storageRegistry, options, context, interfaces, locals,
                   warnings, error, calls>>

Next == Start \/ MapInterface \/ MapThrows \/ ReturnOutput

Spec == Init /\ [][Next]_vars

\* ------------------------------------------------- a caller that calls again
\* The requests of a caller that calls several times: collections alone and
\* in both orders, with names that are referenced and not requested, and
\* one request that fails after a declaration was generated
CallRequests ==
    {<<test>>, <<foo>>, <<mid>>, <<foo, bar>>, <<bar, foo>>, <<bar, tag>>, <<tag, bar>>,
     <<bar, odd>>, <<odd, bar>>}

InitCalls ==
    /\ snapshot = "index"
    /\ storageRegistry = Registry(defaultTestFields, stringIndex(id))
    /\ \E request \in CallRequests, resolver \in {<<>>, <<"sibling">>} :
           options = Options("int", <<>>, request, resolver, <<>>)
    /\ pc = "idle"
    /\ context = [referencedImports |-> <<>>]
    /\ interfaces = <<>>
    /\ locals = <<>>
    /\ warnings = <<>>
    /\ resolverCalls = <<>>
    /\ error = noError
    /\ result = noResult
    /\ calls = <<>>

\* What the call that has just ended was given and got
outcome == [collections |-> options.collections, result |-> result, error |-> error]

\* The caller keeps what the call returned or threw and calls again, with
\* the same registry and options and any list of collections; the locals of
\* the call that ended are gone
CallAgain ==
    /\ pc \in {"done", "failed"}
    /\ Len(calls) + 1 < MaxCalls
    /\ calls' = Append(calls, outcome)
    /\ \E request \in CallRequests : options' = [options EXCEPT !.collections = request]
    /\ pc' = "idle"
    /\ interfaces' = <<>>
    /\ locals' = <<>>
    /\ error' = noError
    /\ result' = noResult
    /\ UNCHANGED <<snapshot, storageRegistry, context, warnings, resolverCalls>>

NextCalls == Start \/ MapInterface \/ MapThrows \/ ReturnOutput \/ CallAgain

SpecCalls == InitCalls /\ [][NextCalls]_vars

\* ------------------------------------------------- the flat variant called
\* The kinds a field of `test` is drawn from when the flat variant runs
FlatFieldPool ==
    {field("string", FALSE), field("int", FALSE), field("auto-pk", FALSE),
     field("media", FALSE)}

FlatFields ==
    UNION {{[k \in 1..n |-> <<FieldNames[k], defs[k]>>] : defs \in [1..n -> FlatFieldPool]}
           : n \in 0..MaxFlatFields}

InitFlat ==
    /\ snapshot = "flat"
    /\ \E fields \in FlatFields :
           \E pk \in TestPks(fields) \cup {compoundIndex(<< <<"a">>, <<"b">> >>)} :
               storageRegistry = Registry(fields, pk)
    /\ \E autoPkType \in {"string", "int"}, request \in {<<test>>, <<test, test>>} :
           options = Options(autoPkType, <<>>, request, <<>>, <<>>)
    /\ pc = "idle"
    /\ context = [referencedImports |-> <<>>]
    /\ interfaces = <<>>
    /\ locals = <<>>
    /\ warnings = <<>>
    /\ resolverCalls = <<>>
    /\ error = noError
    /\ result = noResult
    /\ calls = <<>>

\* The flat generateTypescriptInterfaces: what the map's callbacks give
callbacks_flat ==
    [k \in 1..Len(options.collections) |->
        generateTypescriptInterface_flat(
            IF options.collections[k] \in DOMAIN storageRegistry
            THEN storageRegistry[options.collections[k]] ELSE undefinedCollection,
            options)]

\* Every callback returns: the interfaces joined and returned
ReturnFlat ==
    /\ pc = "idle"
    /\ snapshot = "flat"
    /\ firstThrow(callbacks_flat) = 0
    /\ interfaces' = [k \in 1..Len(callbacks_flat) |-> callbacks_flat[k].value]
    /\ locals' = [k \in 1..Len(callbacks_flat) |-> callbacks_flat[k].locals]
    /\ result' = join(interfaces', <<NL>>) \o <<NL>>
    /\ pc' = "done"
    /\ UNCHANGED <<snapshot, storageRegistry, options, context, warnings, resolverCalls,
                   error, calls>>

\* A callback throws, and so does the flat generateTypescriptInterfaces
ThrowFlat ==
    /\ pc = "idle"
    /\ snapshot = "flat"
    /\ firstThrow(callbacks_flat) # 0
    /\ LET thrown == callbacks_flat[firstThrow(callbacks_flat)]
       IN  error' = [type |-> thrown.type, message |-> thrown.message]
    /\ pc' = "failed"
    /\ UNCHANGED <<snapshot, storageRegistry, options, context, interfaces, locals,
                   warnings, resolverCalls, result, calls>>

NextFlat == ReturnFlat \/ ThrowFlat

SpecFlat == InitFlat /\ [][NextFlat]_vars

\* ------------------------------------------------ reading the output
\* s begins with prefix
startsWith(s, prefix) ==
    Len(prefix) <= Len(s) /\ SubSeq(s, 1, Len(prefix)) = prefix

\* part occurs in s
contains(s, part) ==
    \E k \in 0..(Len(s) - Len(part)) : SubSeq(s, k + 1, k + Len(part)) = part

RECURSIVE paragraphs(_)
\* The runs of lines between empty lines
paragraphs(lines) ==
    IF \A k \in 1..Len(lines) : lines[k] # <<>> THEN <<lines>>
    ELSE LET p == CHOOSE k \in 1..Len(lines) :
                     lines[k] = <<>> /\ \A j \in 1..(k-1) : lines[j] # <<>>
         IN  <<SubSeq(lines, 1, p - 1)>> \o paragraphs(SubSeq(lines, p + 1, Len(lines)))

isImportLine(line) == startsWith(line, <<"import { ">>)

\* The definition of the k-th requested collection
requested(k) == storageRegistry[options.collections[k]]

\* C1: the output is the import statements (when there are any) and a blank
\* line, then the declarations of the requested collections in request order
\* with exactly one blank line between two of them, then one line break
C1_OutputLayout ==
    pc = "done" =>
        LET n == Len(options.collections)
            lines == split(result)
            pars == paragraphs(SubSeq(lines, 1, Len(lines) - 1))
            shift == IF isImportLine(pars[1][1]) THEN 1 ELSE 0
        IN  /\ result[Len(result)] = NL
            /\ Len(result) > 1 => result[Len(result) - 1] # NL
            /\ IF n = 0 THEN result = <<NL>>
               ELSE /\ Len(pars) = n + shift
                    /\ \A k \in 1..Len(pars) : pars[k] # <<>>
                    /\ shift = 1 => \A j \in 1..Len(pars[1]) : isImportLine(pars[1][j])
                    /\ \A k \in 1..n :
                        /\ join(pars[k + shift], <<NL>>) = interfaces[k]
                        /\ startsWith(pars[k + shift][1],
                                      <<"export type ">> \o upperFirst(options.collections[k]))
                        /\ \A j \in 1..Len(pars[k + shift]) : ~isImportLine(pars[k + shift][j])

\* C1 witness: two declarations after an import statement
C1_Witness ==
    /\ pc = "done"
    /\ Len(interfaces) = 2
    /\ isImportLine(result)

\* The names a child-of relationship of a requested collection refers to
referencedBy(definition) ==
    {definition.relationships[k].targetCollection :
        k \in {j \in 1..Len(definition.relationships) :
                 definition.relationships[j].kind = "childOf"}}
    \cup
    {definition.reverseRelationshipsByAlias[k].sourceCollection :
        k \in {j \in 1..Len(definition.reverseRelationshipsByAlias) :
                 definition.reverseRelationshipsByAlias[j].kind = "childOf"}}

referencedNames == UNION {referencedBy(requested(k)) : k \in 1..Len(options.collections)}

\* The lines of the output that are import statements
importLines == SelectSeq(split(result), isImportLine)

importedNames ==
    LET lines == importLines
    IN  {name \in CollectionNames :
            \E k \in 1..Len(lines) :
                startsWith(lines[k], <<"import { ">> \o upperFirst(name) \o <<" } from '">>)}

\* C2: a name is imported exactly when a child-of relationship (forward or
\* reverse) of a requested collection refers to it, it is not requested, and
\* a resolver was given; no other import statement is emitted
C2_ImportsExactlyExternal ==
    (pc = "done" /\ snapshot = "index") =>
        /\ importedNames =
             {name \in referencedNames :
                 notIn(options.collections, name) /\ options.generateImport # <<>>}
        /\ Len(importLines) = Cardinality(importedNames)

\* C2 witness: one referenced name is requested, another is imported
C2_Witness ==
    /\ pc = "done"
    /\ snapshot = "index"
    /\ importedNames # {}
    /\ \E name \in referencedNames : ~notIn(options.collections, name)

\* The type in a primary-key segment
pkSegmentType(pkLine, pkIndex) == pkLine[Len(pkIndex.value) + 3]

\* C3: the primary-key segment has the type string, number or
\* number | string as the strategy is string, int or generic
C3_PkSegmentType ==
    pc = "done" =>
        \A k \in 1..Len(locals) :
            /\ pkSegmentType(locals[k].pkLine, requested(k).pkIndex) =
                 (CASE options.autoPkType = "string" -> "string"
                    [] options.autoPkType = "int" -> "number"
                    [] options.autoPkType = "generic" -> "number | string")
            /\ locals[k].pkLine[Len(requested(k).pkIndex.value) + 2] = " : "
            /\ contains(result, <<NL, "    ">> \o locals[k].pkLine)

\* C3 witness: a declaration generated under the generic strategy
C3_Witness ==
    /\ pc = "done"
    /\ options.autoPkType = "generic"
    /\ Len(locals) > 0

\* The child-of relationships among a collection's forward relationships
childOfRelationships(definition) ==
    SelectSeq(definition.relationships, LAMBDA r : r.kind = "childOf")

\* The two branches of a forward relationship line
selectedBranch(line, alias) == SubSeq(line, 2 * Len(alias) + 5, Len(line) - 2)
unselectedBranch(line) == line[Len(line)]

\* C4: in a forward child-of line the unselected branch is the type of the
\* primary-key segment, under every strategy, and the selected branch is the
\* target collection's type name
C4_UnselectedBranchIsPkType ==
    (pc = "done" /\ snapshot = "index") =>
        \A k \in 1..Len(locals) :
            LET relationships == childOfRelationships(requested(k))
                lines == locals[k].relationshipLines
            IN  /\ Len(lines) = Len(relationships)
                /\ \A j \in 1..Len(lines) :
                    /\ startsWith(lines[j], relationships[j].alias \o <<" : ">>)
                    /\ selectedBranch(lines[j], relationships[j].alias) =
                         upperFirst(relationships[j].targetCollection)
                    /\ unselectedBranch(lines[j]) =
                         pkSegmentType(locals[k].pkLine, requested(k).pkIndex)

\* Whether the Field Emitter leaves a field out: a foreign key, the primary
\* key, or (where the snapshot has a skip list) a skipped kind
omitted(definition, pair) ==
    \/ pair[2].type = "foreign-key"
    \/ definition.pkIndex.type = "string" /\ pair[1] = definition.pkIndex.value
    \/ /\ snapshot = "part_000"
       /\ options.skipTypes # <<>>
       /\ ~notIn(options.skipTypes[1], pair[2].type)

emittedFields(definition) ==
    SelectSeq(definition.fields, LAMBDA pair : ~omitted(definition, pair))

\* A field line is the line of the field called name
isLineOf(line, name) ==
    /\ startsWith(line, name)
    /\ Len(line) > Len(name)
    /\ line[Len(name) + 1] \in {"?", " : "}

\* The field lines of the k-th declaration stand in the output, in a block
inFieldBlock(k) ==
    locals[k].fieldLines # <<>> =>
        contains(result,
                 <<"    ", "{", NL>>
                 \o join([j \in 1..Len(locals[k].fieldLines) |->
                             <<"    ", "    ">> \o locals[k].fieldLines[j]], <<NL>>)
                 \o <<NL, "    ", "}">>)

\* C5: without an override the eight primitive kinds get the types string,
\* string, any, Date, number, boolean, number and number, and the lines of
\* the field block follow the order of the field mapping
C5_DefaultTypesInOrder ==
    (pc = "done" /\ options.fieldTypeMap = <<>>) =>
        \A k \in 1..Len(locals) :
            LET emitted == emittedFields(requested(k))
                lines == locals[k].fieldLines
            IN  /\ Len(lines) = Len(emitted)
                /\ inFieldBlock(k)
                /\ \A j \in 1..Len(lines) :
                    /\ isLineOf(lines[j], emitted[j][1])
                    /\ lines[j][Len(lines[j]) - 1] = " : "
                    /\ LET kind == emitted[j][2].type
                           type == lines[j][Len(lines[j])]
                       IN  /\ kind \in {"string", "text"} => type = "string"
                           /\ kind = "json" => type = "any"
                           /\ kind = "datetime" => type = "Date"
                           /\ kind \in {"timestamp", "float", "int"} => type = "number"
                           /\ kind = "boolean" => type = "boolean"

\* C5 witness: two declarations that between them hold all eight kinds
C5_Witness ==
    /\ pc = "done"
    /\ options.fieldTypeMap = <<>>
    /\ {"string", "text", "json", "datetime", "timestamp", "boolean", "float", "int"}
         \subseteq UNION {{emittedFields(requested(k))[j][2].type :
                              j \in 1..Len(emittedFields(requested(k)))} :
                          k \in 1..Len(locals)}

\* The thrown error is the unresolved-type error
isUnresolvedType == pc = "failed" /\ startsWith(error.message, <<"Could not translate type '">>)

\* The kind the unresolved-type error names
unresolvedKind == error.message[2]

\* C6: with an override mapping, a kind the override lacks and the default
\* table has resolves to the default table's type
C6_OverrideFallsBackPerKind ==
    /\ (isUnresolvedType /\ options.fieldTypeMap # <<>>) =>
           unresolvedKind \notin DOMAIN DEFAULT_FIELD_TYPE_MAP
    /\ (pc = "done" /\ options.fieldTypeMap # <<>>) =>
           \A k \in 1..Len(locals) :
               LET emitted == emittedFields(requested(k))
                   lines == locals[k].fieldLines
               IN  \A j \in 1..Len(lines) :
                       (/\ emitted[j][2].type \notin DOMAIN options.fieldTypeMap[1]
                        /\ emitted[j][2].type \in DOMAIN DEFAULT_FIELD_TYPE_MAP)
                       => lines[j][Len(lines[j])] = DEFAULT_FIELD_TYPE_MAP[emitted[j][2].type]

\* The override mapping, or the empty mapping when none was given
override == IF options.fieldTypeMap # <<>> THEN options.fieldTypeMap[1] ELSE <<>>

\* A kind with no entry in the override mapping nor in the default table
inNeitherTable(kind) ==
    kind \notin DOMAIN override /\ kind \notin DOMAIN DEFAULT_FIELD_TYPE_MAP

\* The error names this field of this collection
errorNames(definition, pair) ==
    contains(error.message,
             <<"' of field '">> \o definition.name \o <<".">> \o pair[1]
             \o <<"' to TypeScript type. ">>)

\* The fields of an emitted mapping that satisfy a test, in order
fieldsWhere(pairs, Test(_)) == SelectSeq(pairs, LAMBDA pair : Test(pair[2].type))

\* What C7 says of the fields that satisfy Offending: a collection that has
\* one is not generated, the error then thrown is the unresolved-type error
\* and names the collection and such a field, and a failed call returns nothing
unresolvedKindFails(Offending(_)) ==
    /\ pc = "done" =>
           \A k \in 1..Len(locals) :
               fieldsWhere(emittedFields(requested(k)), Offending) = <<>>
    /\ pc = "failed" => result = noResult
    /\ (/\ pc = "failed"
        /\ current # undefinedCollection
        /\ current.pkIndex.type = "string"
        /\ fieldsWhere(emittedFields(current), Offending) # <<>>) =>
           /\ isUnresolvedType
           /\ options.fieldTypeMap = <<>> =>
                  LET offending == fieldsWhere(emittedFields(current), Offending)
                  IN  \E j \in 1..Len(offending) :
                          /\ errorNames(current, offending[j])
                          /\ unresolvedKind = offending[j][2].type

inNeitherTableNorAutoPk(kind) == kind # "auto-pk" /\ inNeitherTable(kind)

skipping == snapshot = "part_000" /\ options.skipTypes # <<>>

skipped(pair) == ~notIn(options.skipTypes[1], pair[2].type)

\* The collection without its skipped fields, generated without a skip list
generatedWithoutSkipped(definition) ==
    generateTypescriptInterface_part000(
        [definition EXCEPT !.fields = SelectSeq(@, LAMBDA pair : ~skipped(pair))],
        [options EXCEPT !.skipTypes = <<>>])

\* C8: a field of a skipped kind is not in the field block and raises no
\* unresolved-type error, and the declaration (or the error) is the one the
\* collection without its skipped fields gets
C8_SkippedKindsLeftOut ==
    skipping =>
        /\ pc = "done" =>
               \A k \in 1..Len(locals) :
                   /\ \A j \in 1..Len(requested(k).fields) :
                          skipped(requested(k).fields[j]) =>
                              \A l \in 1..Len(locals[k].fieldLines) :
                                  ~isLineOf(locals[k].fieldLines[l], requested(k).fields[j][1])
                   /\ generatedWithoutSkipped(requested(k)).ok
                   /\ generatedWithoutSkipped(requested(k)).value = interfaces[k]
                   /\ inFieldBlock(k)
        /\ isUnresolvedType =>
               /\ notIn(options.skipTypes[1], unresolvedKind)
               /\ ~generatedWithoutSkipped(current).ok
               /\ generatedWithoutSkipped(current).message = error.message

\* C8 witness: a declaration with a field line, of a collection that has a
\* field of a skipped kind no table holds
C8_Witness ==
    /\ skipping
    /\ pc = "done"
    /\ Len(locals) = 1
    /\ locals[1].fieldLines # <<>>
    /\ \E j \in 1..Len(requested(1).fields) :
           /\ skipped(requested(1).fields[j])
           /\ inNeitherTable(requested(1).fields[j][2].type)
           /\ requested(1).pkIndex.value # requested(1).fields[j][1]

\* A foreign key, or the field the primary key names
keyField(definition, pair) ==
    \/ pair[2].type = "foreign-key"
    \/ pair[1] = definition.pkIndex.value

\* C9: a foreign-key field and the primary-key field are never in the field
\* block, and never the field an unresolved-type error is about
C9_KeysLeftOut ==
    /\ pc = "done" =>
           \A k \in 1..Len(locals) :
               /\ inFieldBlock(k)
               /\ \A j \in 1..Len(requested(k).fields) :
                      keyField(requested(k), requested(k).fields[j]) =>
                          \A l \in 1..Len(locals[k].fieldLines) :
                              ~isLineOf(locals[k].fieldLines[l], requested(k).fields[j][1])
    /\ isUnresolvedType =>
           \A j \in 1..Len(current.fields) :
               keyField(current, current.fields[j]) => ~errorNames(current, current.fields[j])

\* C9 witness: a declaration of a collection whose primary-key field has a
\* kind no table holds, and which has an optional foreign key
C9_Witness ==
    /\ pc = "done"
    /\ Len(locals) = 1
    /\ \E j \in 1..Len(requested(1).fields) :
           /\ requested(1).fields[j][1] = requested(1).pkIndex.value
           /\ inNeitherTable(requested(1).fields[j][2].type)
           /\ requested(1).fields[j][2].type # "auto-pk"
    /\ \E j \in 1..Len(requested(1).fields) :
           /\ requested(1).fields[j][2].type = "foreign-key"
           /\ requested(1).fields[j][2].optional

\* C10: in a field line the name is followed by ? exactly when the field is
\* optional, and then by the type separator
C10_OptionalMark ==
    pc = "done" =>
        \A k \in 1..Len(locals) :
            LET emitted == emittedFields(requested(k))
                lines == locals[k].fieldLines
            IN  /\ Len(lines) = Len(emitted)
                /\ inFieldBlock(k)
                /\ \A j \in 1..Len(lines) :
                    LET after == Len(emitted[j][1]) + 1
                    IN  /\ startsWith(lines[j], emitted[j][1])
                        /\ lines[j][after] = "?" <=> emitted[j][2].optional
                        /\ lines[j][IF emitted[j][2].optional THEN after + 1 ELSE after] = " : "

\* C10 witness: a declaration with an optional and a required field
C10_Witness ==
    /\ pc = "done"
    /\ \E k \in 1..Len(locals) :
           \E i, j \in 1..Len(emittedFields(requested(k))) :
               /\ emittedFields(requested(k))[i][2].optional
               /\ ~emittedFields(requested(k))[j][2].optional

\* The child-of relationships among a collection's reverse relationships
childOfReverseRelationships(definition) ==
    SelectSeq(definition.reverseRelationshipsByAlias, LAMBDA r : r.kind = "childOf")

\* The sub-block of a reverse child-of relationship, as the claim words it
reverseSubBlock(relationship) ==
    <<"( '">> \o relationship.reverseAlias \o <<"' extends ReverseRelationships ? { ">>
    \o relationship.reverseAlias \o <<" : ">>
    \o upperFirst(relationship.sourceCollection)
    \o <<IF relationship.single THEN " | null" ELSE "[]">>
    \o <<" } : {} )">>

\* C11: every reverse child-of relationship of a generated collection has
\* one sub-block in the declaration, gated on its reverse alias being in
\* ReverseRelationships, whose field is the reverse alias typed as the source
\* collection's type followed by ' | null' when single and by '[]'
\* otherwise; the other branch is the empty shape {}
C11_ReverseSubBlocks ==
    (pc = "done" /\ snapshot = "index") =>
        \A k \in 1..Len(locals) :
            LET reverse == childOfReverseRelationships(requested(k))
                blocks == locals[k].reverseRelationships
            IN  /\ Len(blocks) = Len(reverse)
                /\ \A j \in 1..Len(reverse) :
                       /\ blocks[j] = reverseSubBlock(reverse[j])
                       /\ contains(interfaces[k], <<" &", NL, "    ">> \o blocks[j])

\* C11 witness: a declaration of a collection with a single and a list
\* reverse child-of relationship
C11_Witness ==
    /\ pc = "done"
    /\ snapshot = "index"
    /\ \E k \in 1..Len(locals) :
           \E i, j \in 1..Len(childOfReverseRelationships(requested(k))) :
               /\ childOfReverseRelationships(requested(k))[i].single
               /\ ~childOfReverseRelationships(requested(k))[j].single
               /\ Len(locals[k].reverseRelationships) >= 2

\* The first line of the k-th declaration
header(k) == split(interfaces[k])[1]

\* The generic parameters of the k-th declaration, from < to >
parameters(k) == locals[k].interfaceParameters

hasNoRelationships(definition) ==
    definition.relationships = <<>> /\ definition.reverseRelationshipsByAlias = <<>>

\* C12: the header of a collection with no forward and no reverse
\* relationships declares exactly WithPk extends boolean = true, and neither
\* Relationships nor ReverseRelationships
C12_OnlyWithPk ==
    (pc = "done" /\ snapshot = "index") =>
        \A k \in 1..Len(locals) :
            hasNoRelationships(requested(k)) =>
                /\ parameters(k) = <<"<WithPk extends boolean = true>">>
                /\ header(k) = <<"export type ">> \o upperFirst(options.collections[k])
                                \o parameters(k) \o <<" =">>

\* C12 witness: a declaration of a collection without relationships, next
\* to one of a collection with relationships
C12_Witness ==
    /\ pc = "done"
    /\ snapshot = "index"
    /\ \E k, j \in 1..Len(locals) :
           /\ hasNoRelationships(requested(k))
           /\ ~hasNoRelationships(requested(j))
           /\ startsWith(interfaces[k], <<"export type ">>)

\* aliases quoted and followed by null, as a union
union(aliases) ==
    join([k \in 1..Len(aliases) |-> <<"'">> \o aliases[k] \o <<"'">>] \o << <<"null">> >>,
         <<" | ">>)

forwardAliases(definition) ==
    LET relationships == childOfRelationships(definition)
    IN  [k \in 1..Len(relationships) |-> relationships[k].alias]

\* C13: the header of a collection with a forward or a reverse relationship
\* declares, after WithPk, Relationships over the aliases of its forward
\* child-of relationships in declaration order and then null, default null;
\* with reverse relationships only it is Relationships extends null = null
C13_RelationshipsSwitch ==
    (pc = "done" /\ snapshot = "index") =>
        \A k \in 1..Len(locals) :
            ~hasNoRelationships(requested(k)) =>
                /\ startsWith(parameters(k),
                       <<"<", "WithPk extends boolean = true", ", ", "Relationships extends ">>
                       \o union(forwardAliases(requested(k))) \o <<" = null">>)
                /\ parameters(k)[Len(union(forwardAliases(requested(k)))) + 6] \in {", ", ">"}
                /\ requested(k).relationships = <<>> =>
                       startsWith(parameters(k),
                           <<"<", "WithPk extends boolean = true", ", ",
                             "Relationships extends ", "null", " = null">>)
                /\ header(k) = <<"export type ">> \o upperFirst(options.collections[k])
                                \o parameters(k) \o <<" =">>

\* C13 witness: a declaration of a collection with two forward child-of
\* relationships, next to one of a collection with reverse relationships only
C13_Witness ==
    /\ pc = "done"
    /\ snapshot = "index"
    /\ \E k, j \in 1..Len(locals) :
           /\ Len(forwardAliases(requested(k))) = 2
           /\ requested(j).relationships = <<>>
           /\ requested(j).reverseRelationshipsByAlias # <<>>
           /\ contains(header(k), <<"Relationships extends ">>)

reverseAliases(definition) ==
    LET relationships == childOfReverseRelationships(definition)
    IN  [k \in 1..Len(relationships) |-> relationships[k].reverseAlias]

\* The header declares ReverseRelationships
declaresReverseRelationships(k) ==
    \E j \in 1..Len(parameters(k)) : parameters(k)[j] = "ReverseRelationships extends "

\* What the header is when it declares ReverseRelationships: the switch is
\* the last parameter, after Relationships, over the reverse aliases and null
reverseSwitchLast(k) ==
    parameters(k) =
        <<"<", "WithPk extends boolean = true", ", ", "Relationships extends ">>
        \o union(forwardAliases(requested(k))) \o <<" = null", ", ">>
        \o <<"ReverseRelationships extends ">> \o union(reverseAliases(requested(k)))
        \o <<" = null", ">">>

\* C14 as stated: the header declares ReverseRelationships exactly when the
\* collection has a reverse relationship, and then over the reverse aliases
\* and null, default null, after Relationships
C14_ReverseSwitchIffReverse ==
    (pc = "done" /\ snapshot = "index") =>
        \A k \in 1..Len(locals) :
            /\ declaresReverseRelationships(k)
                  <=> requested(k).reverseRelationshipsByAlias # <<>>
            /\ declaresReverseRelationships(k) => reverseSwitchLast(k)

\* C14 amended: the header declares ReverseRelationships exactly when the
\* collection has a reverse child-of relationship (a reverse connects
\* relationship alone declares none), and then over the reverse aliases of
\* the reverse child-of relationships in order and null, default null, after
\* Relationships
C14_ReverseSwitchIffReverseChildOf ==
    (pc = "done" /\ snapshot = "index") =>
        \A k \in 1..Len(locals) :
            /\ declaresReverseRelationships(k)
                  <=> childOfReverseRelationships(requested(k)) # <<>>
            /\ declaresReverseRelationships(k) => reverseSwitchLast(k)
            /\ header(k) = <<"export type ">> \o upperFirst(options.collections[k])
                            \o parameters(k) \o <<" =">>

\* C14 witness: a declaration of a collection whose only reverse
\* relationship is a connects one, next to one that declares
\* ReverseRelationships
C14_Witness ==
    /\ pc = "done"
    /\ snapshot = "index"
    /\ \E k, j \in 1..Len(locals) :
           /\ requested(k).reverseRelationshipsByAlias # <<>>
           /\ childOfReverseRelationships(requested(k)) = <<>>
           /\ ~declaresReverseRelationships(k)
           /\ declaresReverseRelationships(j)
           /\ Len(reverseAliases(requested(j))) > 1

\* The connects relationships among a sequence of relationships
connectsRelationships(relationships) ==
    SelectSeq(relationships, LAMBDA r : r.kind = "connects")

\* Every relationship of the collection is a child-of or a connects one
supported(definition) ==
    \A r \in {definition.relationships[j] : j \in 1..Len(definition.relationships)}
           \cup {definition.reverseRelationshipsByAlias[j] :
                    j \in 1..Len(definition.reverseRelationshipsByAlias)} :
        r.kind \in {"childOf", "connects"}

\* A warning about a connects relationship of the collection called name
isWarningOf(warning, name, forward) ==
    IF forward
    THEN warning = <<"Warning: 'connects' relationships are not supported yet, skipping one in collection ">>
                   \o name
    ELSE startsWith(warning,
             <<"Warning: 'connects' reverse relationships are not supported yet, skipping one in collection ">>
             \o name \o <<" ">>)

\* The quotes in the header: two for every alias of a switch
quotes(k) == Len(SelectSeq(parameters(k), LAMBDA token : token = "'"))

\* C15: a connects relationship, forward or reverse, never makes generation
\* fail, puts no field line, no sub-block and no alias in the declaration,
\* and one warning is printed for it
C15_ConnectsSkippedWithWarning ==
    /\ (pc = "done" /\ snapshot = "index") =>
           /\ \A k \in 1..Len(locals) :
                  /\ Len(locals[k].relationshipLines) = Len(childOfRelationships(requested(k)))
                  /\ Len(locals[k].reverseRelationships)
                        = Len(childOfReverseRelationships(requested(k)))
                  /\ quotes(k) = 2 * (Len(childOfRelationships(requested(k)))
                                      + Len(childOfReverseRelationships(requested(k))))
                  /\ connectsRelationships(requested(k).relationships) # <<>> =>
                         \E w \in 1..Len(warnings) :
                             isWarningOf(warnings[w], options.collections[k], TRUE)
                  /\ connectsRelationships(requested(k).reverseRelationshipsByAlias) # <<>> =>
                         \E w \in 1..Len(warnings) :
                             isWarningOf(warnings[w], options.collections[k], FALSE)
           /\ Len(warnings) =
                  Len(join([k \in 1..Len(locals) |->
                              connectsRelationships(requested(k).relationships)
                              \o connectsRelationships(requested(k).reverseRelationshipsByAlias)],
                           <<>>))
    /\ (/\ pc = "failed"
        /\ snapshot = "index"
        /\ current # undefinedCollection
        /\ current.pkIndex.type = "string"
        /\ ~isUnresolvedType) => ~supported(current)

\* C15 witness: declarations of a collection with a forward and of one with
\* a reverse connects relationship, and a warning for each
C15_Witness ==
    /\ pc = "done"
    /\ snapshot = "index"
    /\ Len(warnings) = 2
    /\ \E k, j \in 1..Len(locals) :
           /\ connectsRelationships(requested(k).relationships) # <<>>
           /\ connectsRelationships(requested(j).reverseRelationshipsByAlias) # <<>>

\* The error is the one thrown for a relationship of an unsupported variant
isUnsupportedRelationship ==
    /\ pc = "failed"
    /\ error.type = "Error"
    /\ error.message # <<>>
    /\ error.message[1] \in
          {"Unsupported relationship type detected in collection ",
           "Unsupported reverse relationship type detected in collection "}

\* C16: a collection with a forward or a reverse relationship that is
\* neither child-of nor connects is never generated: the call fails with an
\* error that includes the collection name, and returns no string
C16_UnsupportedVariantFails ==
    /\ (pc = "done" /\ snapshot = "index") =>
           \A k \in 1..Len(locals) : supported(requested(k))
    /\ (/\ pc = "failed"
        /\ snapshot = "index"
        /\ current # undefinedCollection
        /\ ~supported(current)) =>
           /\ result = noResult
           /\ Len(interfaces) < Len(options.collections)
           /\ (current.pkIndex.type = "string" /\ ~isUnresolvedType) =>
                  /\ isUnsupportedRelationship
                  /\ Len(error.message) > Len(current.name)
                  /\ SubSeq(error.message, 2, Len(current.name) + 1) = current.name
    /\ isUnsupportedRelationship => ~supported(current)

\* C16 witness: the call fails at a collection whose reverse relationship
\* is of an unsupported variant, after a declaration was generated
C16_Witness ==
    /\ isUnsupportedRelationship
    /\ Len(interfaces) = 1
    /\ \E j \in 1..Len(current.reverseRelationshipsByAlias) :
           current.reverseRelationshipsByAlias[j].kind \notin {"childOf", "connects"}
    /\ contains(error.message, current.name)

\* The error is the one thrown for a primary key that is not a field name
isUnsupportedPkIndex ==
    /\ pc = "failed"
    /\ error.type = "Error"
    /\ startsWith(error.message, <<"Unsupported pkIndex found in collection ">>)

hasCompoundPk(definition) ==
    definition.pkIndex.type = "object" /\ Len(definition.pkIndex.value) > 1

\* C18: a collection with a compound primary key is generated without an
\* error, and its field block holds every one of its fields, those of the
\* compound key included
C18_CompoundPkGenerated ==
    /\ (/\ pc = "failed"
        /\ current # undefinedCollection
        /\ hasCompoundPk(current)) =>
           \/ isUnresolvedType
           \/ isUnsupportedRelationship
    /\ pc = "done" =>
           \A k \in 1..Len(locals) :
               hasCompoundPk(requested(k)) =>
                   /\ inFieldBlock(k)
                   /\ \A j \in 1..Len(requested(k).fields) :
                          requested(k).fields[j][2].type # "foreign-key" =>
                              \E l \in 1..Len(locals[k].fieldLines) :
                                  isLineOf(locals[k].fieldLines[l], requested(k).fields[j][1])

\* The requested name the call is at is absent from the registry
atAbsentName ==
    /\ Len(interfaces) < Len(options.collections)
    /\ options.collections[Len(interfaces) + 1] \notin DOMAIN storageRegistry

raisesAt(k) ==
    LET collectionName == options.collections[k]
        collectionDefinition == IF collectionName \in DOMAIN storageRegistry
                                THEN storageRegistry[collectionName]
                                ELSE undefinedCollection
    IN  IF snapshot = "index"
        THEN ~generateTypescriptInterface(collectionDefinition, options).ok
        ELSE ~generateTypescriptInterface_part000(collectionDefinition, options).ok

\* C20: when generating one of the requested collections raises an error,
\* wherever it stands in the request, the call fails: no string is returned,
\* the declarations generated before it are not delivered, and the import
\* resolver is never called
C20_FailureAbortsBatch ==
    /\ (\E k \in 1..Len(options.collections) : raisesAt(k)) =>
           /\ pc # "done"
           /\ result = noResult
           /\ resolverCalls = <<>>
    /\ pc = "failed" =>
           /\ raisesAt(Len(interfaces) + 1)
           /\ \A k \in 1..Len(interfaces) : ~raisesAt(k)
           /\ error # noError
           /\ result = noResult
           /\ resolverCalls = <<>>

\* C20 witness: the call fails at the second collection, after a
\* declaration was generated that refers to a collection the resolver
\* would have been asked about
C20_Witness ==
    /\ pc = "failed"
    /\ Len(interfaces) = 1
    /\ options.generateImport # <<>>
    /\ \E k \in 1..Len(context.referencedImports) :
           notIn(options.collections, context.referencedImports[k])
    /\ result = noResult
    /\ resolverCalls = <<>>

\* The calls that have ended, the last one included
ended == calls \o (IF pc \in {"done", "failed"} THEN <<outcome>> ELSE <<>>)

\* C21: two calls with the same registry and the same options return the
\* same string, or throw the same error
C21_SameInputsSameOutput ==
    \A i, j \in 1..Len(ended) :
        ended[i].collections = ended[j].collections =>
            /\ ended[i].result = ended[j].result
            /\ ended[i].error = ended[j].error

\* C21 witness: the first and the third call get the same request and
\* return a string with an import statement, the call between them another
\* request
C21_Witness ==
    /\ Len(ended) = 3
    /\ ended[1].collections = ended[3].collections
    /\ ended[2].collections # ended[1].collections
    /\ ended[3].result # noResult
    /\ isImportLine(ended[3].result)

\* The names the import statements of a returned string import
importedNamesOf(returned) ==
    LET lines == SelectSeq(split(returned), isImportLine)
    IN  {name \in CollectionNames :
            \E k \in 1..Len(lines) :
                startsWith(lines[k], <<"import { ">> \o upperFirst(name) \o <<" } from '">>)}

\* The names the child-of relationships of the collections of a request
\* refer to
referencedNamesOf(request) ==
    UNION {referencedBy(storageRegistry[request[k]]) : k \in 1..Len(request)}

\* The names a call with this request has to import
externalNamesOf(request) ==
    {name \in referencedNamesOf(request) :
        notIn(request, name) /\ options.generateImport # <<>>}

\* C22: every call starts with an empty set of referenced names, so the
\* names a call imports are those its own request refers to and does not
\* hold, whatever the earlier calls referred to and whether they failed
C22_FreshContextPerCall ==
    /\ (pc = "map" /\ interfaces = <<>>) => context.referencedImports = <<>>
    /\ \A i \in 1..Len(ended) :
           ended[i].result # noResult =>
               importedNamesOf(ended[i].result) = externalNamesOf(ended[i].collections)

\* C22 witness: a call that failed after it referred to a name, then a
\* call with a resolver that returns a string without that name
C22_Witness ==
    /\ Len(ended) = 2
    /\ options.generateImport # <<>>
    /\ ended[1].result = noResult
    /\ ended[1].collections[1] = bar
    /\ ended[2].result # noResult
    /\ foo \notin importedNamesOf(ended[2].result)
    /\ notIn(ended[2].collections, foo)

\* The names a collection's child-of relationships refer to: the targets
\* of its forward relationships, then the sources of its reverse ones
referencesInOrder(definition) ==
    LET forward == childOfRelationships(definition)
        reverse == childOfReverseRelationships(definition)
    IN  [k \in 1..Len(forward) |-> forward[k].targetCollection]
        \o [k \in 1..Len(reverse) |-> reverse[k].sourceCollection]

RECURSIVE firstOccurrences(_)
\* A sequence without the repetitions of its elements
firstOccurrences(seq) ==
    IF seq = <<>> THEN <<>>
    ELSE LET before == firstOccurrences(SubSeq(seq, 1, Len(seq) - 1))
         IN  IF notIn(before, seq[Len(seq)]) THEN Append(before, seq[Len(seq)]) ELSE before

\* The names the requested collections refer to and the request does not
\* hold, in the order of their first reference
externalInOrder ==
    SelectSeq(firstOccurrences(join([k \in 1..Len(options.collections) |->
                                        referencesInOrder(requested(k))], <<>>)),
              LAMBDA name : notIn(options.collections, name))

\* C23: with a resolver, every name referred to and not requested has
\* exactly one import statement, however often it is referred to; the
\* statements stand in the order of the first references (collections in
\* request order, forward before reverse relationships), and each imports
\* the name, first character in upper case, from the path the resolver
\* gave for that name
C23_ImportsOnceInReferenceOrder ==
    (pc = "done" /\ snapshot = "index" /\ options.generateImport # <<>>) =>
        /\ importLines =
              [k \in 1..Len(externalInOrder) |->
                  <<"import { ">> \o upperFirst(externalInOrder[k]) \o <<" } from '">>
                  \o generateImport(options.generateImport[1], externalInOrder[k])
                  \o <<"' ">>]
        /\ resolverCalls = externalInOrder

\* C23 witness: two import statements that are not in alphabetical order,
\* the first for a name two requested collections refer to
C23_Witness ==
    /\ pc = "done"
    /\ snapshot = "index"
    /\ options.generateImport # <<>>
    /\ Len(importLines) = 2
    /\ externalInOrder = <<foo, bar>>
    /\ Len(options.collections) = 2
    /\ \A k \in 1..2 : foo \in referencedBy(requested(k))

\* A bracketed group of lines
group(lines) ==
    <<"{", NL>> \o join([j \in 1..Len(lines) |-> <<"    ">> \o lines[j]], <<NL>>) \o <<NL, "}">>

\* The segments of the k-th declaration body that the claim names
segments(k) ==
    <<locals[k].pkLine>>
    \o (IF emittedFields(requested(k)) # <<>> THEN <<group(locals[k].fieldLines)>> ELSE <<>>)
    \o (IF childOfRelationships(requested(k)) # <<>>
        THEN <<group(locals[k].relationshipLines)>> ELSE <<>>)
    \o [j \in 1..Len(childOfReverseRelationships(requested(k))) |->
           reverseSubBlock(childOfReverseRelationships(requested(k))[j])]

\* A line without its indentation
unindented(line) ==
    IF line # <<>> /\ line[1] = "    " THEN SelectSeq(line, LAMBDA token : token # "    ")
    ELSE line

\* C24: the body of a declaration is the primary-key segment, then the
\* field block exactly when a field is emitted, then the forward
\* relationship block exactly when a forward relationship gives a line,
\* then one sub-block per reverse child-of relationship in the order of the
\* reverse mapping, joined by &; it holds no empty bracketed group
C24_BodyComposition ==
    (pc = "done" /\ snapshot = "index") =>
        \A k \in 1..Len(locals) :
            LET lines == split(interfaces[k])
                body == split(join(segments(k), <<" &", NL>>))
            IN  /\ locals[k].pkLine # <<>>
                /\ Len(locals[k].fieldLines) = Len(emittedFields(requested(k)))
                /\ Len(locals[k].relationshipLines) = Len(childOfRelationships(requested(k)))
                /\ Len(lines) = Len(body) + 1
                /\ \A l \in 1..Len(body) : lines[l + 1] = <<"    ">> \o body[l]
                /\ \A l \in 1..(Len(lines) - 1) :
                       unindented(lines[l]) = <<"{">> =>
                           unindented(lines[l + 1]) \notin {<<>>, <<"}">>}

\* C24 witness: a declaration whose body has the four kinds of segment,
\* next to one with a field block and no relationship block
C24_Witness ==
    /\ pc = "done"
    /\ snapshot = "index"
    /\ \E k, j \in 1..Len(locals) :
           /\ Len(segments(k)) = 4
           /\ childOfReverseRelationships(requested(k)) # <<>>
           /\ childOfRelationships(requested(k)) # <<>>
           /\ Len(segments(j)) = 2
           /\ locals[j].fieldLines # <<>>

\* The type name in the selected branch of a reverse sub-block
reverseBlockType(block, alias) == SubSeq(block, 2 * Len(alias) + 4, Len(block) - 2)

\* The type names the k-th declaration body refers to
bodyTypeNames(k) ==
    {selectedBranch(locals[k].relationshipLines[j], childOfRelationships(requested(k))[j].alias) :
        j \in 1..Len(locals[k].relationshipLines)}
    \cup
    {reverseBlockType(locals[k].reverseRelationships[j],
                      childOfReverseRelationships(requested(k))[j].reverseAlias) :
        j \in 1..Len(locals[k].reverseRelationships)}

\* The returned string declares the type
declaresType(typeName) ==
    \E line \in {split(result)[l] : l \in 1..Len(split(result))} :
        /\ startsWith(line, <<"export type ">> \o typeName)
        /\ line[Len(typeName) + 2] \in {"<", "<WithPk extends boolean = true>"}

\* The returned string imports the type
importsType(typeName) ==
    \E l \in 1..Len(importLines) :
        startsWith(importLines[l], <<"import { ">> \o typeName \o <<" } from '">>)

\* C25: with a resolver, every type name a declaration body refers to (the
\* target of a forward, the source of a reverse child-of relationship) is
\* declared in the returned string or imported by it under the same name;
\* a parent requested alone imports every child of its reverse sub-blocks
C25_ReferencedTypesResolved ==
    (pc = "done" /\ snapshot = "index" /\ options.generateImport # <<>>) =>
        \A k \in 1..Len(locals) :
            /\ \A typeName \in bodyTypeNames(k) :
                   declaresType(typeName) \/ importsType(typeName)
            /\ Cardinality(bodyTypeNames(k)) = Cardinality(referencedBy(requested(k)))
            /\ Len(locals) = 1 =>
                   \A j \in 1..Len(childOfReverseRelationships(requested(k))) :
                       LET child == childOfReverseRelationships(requested(k))[j].sourceCollection
                       IN  child # options.collections[1] => importsType(upperFirst(child))

\* C25 witness: a parent requested alone, with an import statement for
\* each of the three children its reverse sub-blocks name
C25_Witness ==
    /\ pc = "done"
    /\ snapshot = "index"
    /\ options.generateImport # <<>>
    /\ Len(locals) = 1
    /\ Cardinality(bodyTypeNames(1)) = 3
    /\ Len(importLines) = 3
    /\ requested(1).relationships = <<>>

\* Two requests hold the same names, each as often
sameList(first, second) ==
    /\ Len(first) = Len(second)
    /\ \A name \in CollectionNames :
           Len(SelectSeq(first, LAMBDA x : x = name))
             = Len(SelectSeq(second, LAMBDA x : x = name))

\* The import statements of a returned string, as a set
importStatements(returned) ==
    LET lines == SelectSeq(split(returned), isImportLine)
    IN  {lines[k] : k \in 1..Len(lines)}

\* C26: two calls whose requests are orderings of the same list return
\* the same set of import statements
C26_ImportSetOrderFree ==
    \A i, j \in 1..Len(ended) :
        (/\ sameList(ended[i].collections, ended[j].collections)
         /\ ended[i].result # noResult
         /\ ended[j].result # noResult) =>
            importStatements(ended[i].result) = importStatements(ended[j].result)

\* C26 witness: two calls whose requests are the two orderings of a list,
\* with the same two import statements in different orders
C26_Witness ==
    /\ Len(ended) = 2
    /\ ended[1].collections # ended[2].collections
    /\ sameList(ended[1].collections, ended[2].collections)
    /\ ended[1].result # noResult
    /\ ended[2].result # noResult
    /\ Cardinality(importStatements(ended[1].result)) = 2
    /\ split(ended[1].result)[1] = split(ended[2].result)[2]
    /\ split(ended[1].result)[2] = split(ended[2].result)[1]

\* The primary-key field is among the fields of the collection
pkAmongFields(definition) ==
    /\ definition.pkIndex.type = "string"
    /\ \E j \in 1..Len(definition.fields) : definition.fields[j][1] = definition.pkIndex.value

\* The field a line of a flat interface body is about
lineName(line) == SubSeq(line, 1, Len(line) - 2)

\* C27: in the flat variant, when the primary-key field is among the
\* fields of a collection, the lines of the interface body are the
\* primary-key field and then every other field once, in the order of the
\* field mapping, wherever the primary-key field stands in the mapping
C27_FlatPkFirst ==
    (pc = "done" /\ snapshot = "flat") =>
        \A k \in 1..Len(locals) :
            pkAmongFields(requested(k)) =>
                LET fields == requested(k).fields
                    pk == requested(k).pkIndex.value
                    others == SelectSeq(fields, LAMBDA pair : pair[1] # pk)
                    lines == locals[k].fieldLines
                IN  /\ Len(lines) = Len(fields)
                    /\ lineName(lines[1]) = pk
                    /\ \A j \in 1..Len(others) : lineName(lines[j + 1]) = others[j][1]
                    /\ split(interfaces[k]) =
                          << <<"export interface ">> \o upperFirst(options.collections[k])
                             \o <<" {">> >>
                          \o [j \in 1..Len(lines) |-> <<"    ">> \o lines[j]]
                          \o << <<"}">> >>

\* C27 witness: an interface of a collection with three fields, the
\* primary key the last of them
C27_Witness ==
    /\ pc = "done"
    /\ snapshot = "flat"
    /\ Len(requested(1).fields) = 3
    /\ requested(1).fields[3][1] = requested(1).pkIndex.value
    /\ lineName(locals[1].fieldLines[1]) = requested(1).pkIndex.value
    /\ lineName(locals[1].fieldLines[2]) = requested(1).fields[1][1]

\* The tokens of the body of the k-th declaration: what follows its header
bodyTokens(k) ==
    LET declaration == interfaces[k]
    IN  SubSeq(declaration, Len(header(k)) + 1, Len(declaration))

\* The body of the k-th declaration holds a forward relationship line
usesRelationships(k) ==
    \E j \in 1..Len(bodyTokens(k)) : bodyTokens(k)[j] = "' extends Relationships"

\* The body of the k-th declaration holds a reverse sub-block
usesReverseRelationships(k) ==
    \E j \in 1..Len(bodyTokens(k)) :
        bodyTokens(k)[j] = "' extends ReverseRelationships ? { "

usesWithPk(k) ==
    \E j \in 1..Len(bodyTokens(k)) : bodyTokens(k)[j] = "( WithPk extends true ? { "

declaresWithPk(k) ==
    \E j \in 1..Len(header(k)) :
        header(k)[j] \in {"WithPk extends boolean = true", "<WithPk extends boolean = true>"}

declaresRelationships(k) ==
    \E j \in 1..Len(header(k)) : header(k)[j] = "Relationships extends "

\* C28: every generic parameter a declaration body uses is declared in the
\* header of that declaration: WithPk always, Relationships when the body
\* holds a forward relationship line, ReverseRelationships when it holds a
\* reverse sub-block, also when child-of and connects relationships mix
C28_UsedParametersDeclared ==
    (pc = "done" /\ snapshot = "index") =>
        \A k \in 1..Len(interfaces) :
            /\ usesWithPk(k) => declaresWithPk(k)
            /\ usesRelationships(k) => declaresRelationships(k)
            /\ usesReverseRelationships(k) =>
                  \E j \in 1..Len(header(k)) : header(k)[j] = "ReverseRelationships extends "
            /\ usesRelationships(k) <=> locals[k].relationshipLines # <<>>
            /\ usesReverseRelationships(k) <=> locals[k].reverseRelationships # <<>>

\* C28 witness: a declaration with reverse sub-blocks and no forward line,
\* of a collection whose reverse relationships mix child-of and connects,
\* and one with forward lines of a collection that mixes them too
C28_Witness ==
    /\ pc = "done"
    /\ snapshot = "index"
    /\ \E k \in 1..Len(interfaces) :
           /\ usesReverseRelationships(k)
           /\ ~usesRelationships(k)
           /\ connectsRelationships(requested(k).reverseRelationshipsByAlias) # <<>>
    /\ \E k \in 1..Len(interfaces) :
           /\ usesRelationships(k)
           /\ usesWithPk(k)
           /\ connectsRelationships(requested(k).relationships) # <<>>

\* The type a field line or a forward relationship line ends with
emittedType(line) == line[Len(line)]

\* C29: when generation succeeds, every field line and every forward
\* relationship line carries a defined type name, under every strategy,
\* override mapping and field kind; a missing type is never emitted
C29_EmittedTypesDefined ==
    pc = "done" =>
        \A k \in 1..Len(locals) :
            /\ \A j \in 1..Len(locals[k].fieldLines) :
                   emittedType(locals[k].fieldLines[j]) # "undefined"
            /\ \A j \in 1..Len(locals[k].relationshipLines) :
                   emittedType(locals[k].relationshipLines[j]) # "undefined"

\* The primary-key segment of a collection whose primary key is a field of
\* kind auto-pk held by the field mapping, generated with no override
referencePkLine(strategy) ==
    LET definition == Registry(defaultTestFields, stringIndex(id))[hub]
        plain == Options(strategy, <<>>, <<hub>>, <<>>, <<>>)
    IN  IF snapshot = "part_000"
        THEN generateTypescriptOptionalPk_part000(definition, plain).value
        ELSE generateTypescriptOptionalPk(definition, plain).value

\* The kinds of the fields that are the primary key of the collection
pkFieldKinds(definition) ==
    {definition.fields[j][2].type :
        j \in {i \in 1..Len(definition.fields) :
                  definition.fields[i][1] = definition.pkIndex.value}}

\* C30: the type in the primary-key segment depends on the strategy only:
\* it is the type of the segment of a collection with an auto-pk primary
\* key field and no override, whatever the kind of the primary-key field,
\* whether the field mapping holds it or not, whatever the override mapping
C30_PkTypeByStrategyAlone ==
    pc = "done" =>
        \A k \in 1..Len(locals) :
            pkSegmentType(locals[k].pkLine, requested(k).pkIndex) =
                pkSegmentType(referencePkLine(options.autoPkType), stringIndex(id))

\* C30 witness: the strategy is string, the primary key is a field of kind
\* datetime that the override maps to number, and the segment is generated;
\* or the field mapping does not hold the primary key and an override is given
C30_Witness ==
    /\ pc = "done"
    /\ options.fieldTypeMap = <<extendedMap>>
    /\ options.autoPkType = "string"
    /\ options.collections = <<test>>
    /\ pkFieldKinds(requested(1)) = {"datetime"}
    /\ pkSegmentType(locals[1].pkLine, requested(1).pkIndex) = "string"

====
